---- MODULE Spec2Model ----
(***************************************************************************)
(* A model of the bonaventure interactive-fiction runtime: the World       *)
(* (sparse component tables), the physical system (phys.rs), the rule      *)
(* engine (rule_monitor.rs and the event rules), the player-control        *)
(* system with undo (player_control.rs), the command loop (lib.rs) and     *)
(* the scenario builder (world_builder.rs).                                *)
(***************************************************************************)
EXTENDS Integers, Sequences, FiniteSets, TLC

VARIABLES
    world,        \* the live World (Game.world)
    undo_stack,   \* the saved Worlds, most recent last (Game)
    pc,           \* position of the command loop / of the builder
    cmd,          \* the input of the current loop iteration
    status,       \* result of the last player_control::system call
    pre,          \* the World as it was when the last input was read
    out,          \* the text rendered in the current loop iteration, in order
    evals,        \* the rule predicates evaluated in the current iteration, in order
    fireCount,    \* per once-only rule: how often its script has run
    clean,        \* no undo and no restart has happened so far
    expectations, \* WorldBuilder.expectations
    scenario      \* the scenario option the World was built with (kept for restart)

vars == <<world, undo_stack, pc, cmd, status, pre, out, evals, fireCount, clean,
          expectations, scenario>>

-----------------------------------------------------------------------------
(* Bounds of the model *)

\* The loop reads no further input once the turn counter has reached MaxClock.
MaxClock == 4

\* The number of Worlds the undo history retains (one is what the contract needs).
MaxUndo == 1

\* The builder allocates at most this many entities.
MaxEntities == 4

\* The scenario makes at most this many builder calls after WorldBuilder::new.
MaxCalls == 3

-----------------------------------------------------------------------------
(* Identities.  LIMBO and the player are allocated first; the others in the *)
(* order in which the scenario creates them.                               *)

LIMBO == 0
PLAYER == 1
CLEARING == 2
TRAIL == 3
BRIDGE == 4
STREAM == 5
NOTE == 6
RULE_DIRTY_NOTE == 7
SWORD == 8
RULE_SWORD_GET == 9
RULE_STORY_1 == 10
FAIRY_GODMOTHER_RULE == 11
\* Entities added to the scenario to exercise the builder's feature(), dead_end(),
\* allow(), on() and verb_noun() calls.
TREE == 12
HANDS == 13
GUARD_SWORD_NOTE == 14
ON_GET_SWORD == 15
GUARD_ENTER_BRIDGE == 16
ON_ENTER_BRIDGE == 17
GUARD_READ_NOTE == 18
ON_READ_NOTE == 19
ON_GET_NOTE_DIRTY == 20
\* Two every-turn rules, the second of which waits for a flag the first one sets.
RULE_DAWN == 21
RULE_BIRDSONG == 22

-----------------------------------------------------------------------------
(* Flags.  A flag is a pair <<name, argument>>; only Seen carries an argument. *)

Scenery == <<"Scenery", 0>>
Immovable == <<"Immovable", 0>>
Dead == <<"Dead", 0>>
FireOnce == <<"FireOnce", 0>>
Fired == <<"Fired", 0>>
Seen(room) == <<"Seen", room>>
DIRTY == <<"DIRTY", 0>>
DIRTY_HANDS == <<"DIRTY_HANDS", 0>>
HAS_WATER == <<"HAS_WATER", 0>>
LIT == <<"LIT", 0>>

-----------------------------------------------------------------------------
(* Events *)

Turn == [kind |-> "Turn", actor |-> 0, target |-> 0]
GetThing(pid, thing) == [kind |-> "GetThing", actor |-> pid, target |-> thing]
ReadThing(pid, thing) == [kind |-> "ReadThing", actor |-> pid, target |-> thing]
EnterRoom(pid, room) == [kind |-> "EnterRoom", actor |-> pid, target |-> room]

-----------------------------------------------------------------------------
(* Script actions *)

ActPrint(text) == [op |-> "Print", id |-> 0, flag |-> <<"", 0>>, text |-> text]
ActSetFlag(id, flag) == [op |-> "SetFlag", id |-> id, flag |-> flag, text |-> ""]
ActUnsetFlag(id, flag) == [op |-> "UnsetFlag", id |-> id, flag |-> flag, text |-> ""]
ActForget(id) == [op |-> "Forget", id |-> id, flag |-> <<"", 0>>, text |-> ""]
ActKill(id) == [op |-> "Kill", id |-> id, flag |-> <<"", 0>>, text |-> ""]
ActRevive(id) == [op |-> "Revive", id |-> id, flag |-> <<"", 0>>, text |-> ""]

-----------------------------------------------------------------------------
(* World accessors *)

has_location(w, id) == id \in DOMAIN w.locations
has_inventory(w, id) == id \in DOMAIN w.inventories
is_room(w, id) == id \in DOMAIN w.rooms /\ id \in DOMAIN w.inventories
is_thing(w, id) == id \in DOMAIN w.things
has_flag(w, id, flag) == id \in DOMAIN w.flag_sets /\ flag \in w.flag_sets[id]
set_flag(w, id, flag) == [w EXCEPT !.flag_sets[id] = @ \cup {flag}]
unset_flag(w, id, flag) == [w EXCEPT !.flag_sets[id] = @ \ {flag}]


-----------------------------------------------------------------------------
(* The scenario: the World that scenario::build returns.  dirty says whether *)
(* the player is built with the DIRTY_HANDS flag.                           *)

Room(dest) == [kind |-> "Room", id |-> dest, text |-> ""]
DeadEnd(text) == [kind |-> "DeadEnd", id |-> 0, text |-> text]

Rule(event, is_guard, predicate, script) ==
    [event |-> event, is_guard |-> is_guard, predicate |-> predicate, script |-> script]

ScenarioTags ==
    <<"LIMBO", "self", "clearing", "trail", "bridge", "stream", "note",
      "rule-dirty-note", "sword", "rule-sword-get", "rule-story-1",
      "fairy-godmother-rule", "tree", "hands", "allow-get-sword",
      "on-get-sword", "allow-enter-bridge", "on-enter-bridge",
      "allow-read-note", "on-read-note", "on-get-note-dirty",
      "rule-dawn", "rule-birdsong">>

ScenarioThings ==
    (PLAYER :> "self") @@ (STREAM :> "stream") @@ (NOTE :> "note") @@
    (SWORD :> "sword") @@ (TREE :> "tree") @@ (HANDS :> "hands")

ScenarioRooms ==
    (CLEARING :> (("east" :> Room(TRAIL)) @@
                  ("west" :> DeadEnd("The woods are too thick."))))
    @@ (TRAIL :> (("east" :> Room(BRIDGE)) @@ ("west" :> Room(CLEARING))))
    @@ (BRIDGE :> ("west" :> Room(TRAIL)))

ScenarioLocations ==
    (PLAYER :> CLEARING) @@ (STREAM :> BRIDGE) @@ (NOTE :> CLEARING) @@
    (SWORD :> TRAIL) @@ (TREE :> CLEARING) @@ (HANDS :> PLAYER)

ScenarioInventories ==
    (LIMBO :> {}) @@ (PLAYER :> {HANDS}) @@ (CLEARING :> {PLAYER, NOTE, TREE}) @@
    (TRAIL :> {SWORD}) @@ (BRIDGE :> {STREAM})

ScenarioRules ==
    (RULE_DIRTY_NOTE :>
        Rule(GetThing(PLAYER, NOTE), FALSE, "dirty_note",
             <<ActPrint("The dirt from your hands got all over the note."),
               ActSetFlag(NOTE, DIRTY)>>))
    @@ (RULE_SWORD_GET :>
        Rule(GetThing(PLAYER, SWORD), TRUE, "clean_hands",
             <<ActPrint("Only the pure may touch this sword."), ActKill(PLAYER)>>))
    @@ (RULE_STORY_1 :>
        Rule(Turn, FALSE, "clock_zero",
             <<ActPrint("You don't know where you are.")>>))
    @@ (FAIRY_GODMOTHER_RULE :>
        Rule(Turn, FALSE, "player_dead",
             <<ActPrint("A fairy godmother hovers over your limp body."),
               ActRevive(PLAYER)>>))
    @@ (GUARD_SWORD_NOTE :>
        Rule(GetThing(PLAYER, SWORD), TRUE, "not_holding_note",
             <<ActPrint("The sword will not share you with the note.")>>))
    @@ (ON_GET_SWORD :>
        Rule(GetThing(PLAYER, SWORD), FALSE, "always",
             <<ActPrint("The sword hums.")>>))
    @@ (GUARD_ENTER_BRIDGE :>
        Rule(EnterRoom(PLAYER, BRIDGE), TRUE, "not_holding_note",
             <<ActPrint("The wind would take the note.")>>))
    @@ (ON_ENTER_BRIDGE :>
        Rule(EnterRoom(PLAYER, BRIDGE), FALSE, "always",
             <<ActPrint("You hear water.")>>))
    @@ (GUARD_READ_NOTE :>
        Rule(ReadThing(PLAYER, NOTE), TRUE, "note_clean",
             <<ActPrint("You've gotten it too dirty to read.")>>))
    @@ (ON_READ_NOTE :>
        Rule(ReadThing(PLAYER, NOTE), FALSE, "always",
             <<ActPrint("You feel informed.")>>))
    @@ (ON_GET_NOTE_DIRTY :>
        Rule(GetThing(PLAYER, NOTE), FALSE, "note_dirty",
             <<ActPrint("You wipe your hands on your trousers, too late.")>>))
    @@ (RULE_DAWN :>
        Rule(Turn, FALSE, "always",
             <<ActPrint("Dawn breaks over the tree."), ActSetFlag(TREE, LIT)>>))
    @@ (RULE_BIRDSONG :>
        Rule(Turn, FALSE, "tree_lit", <<ActPrint("A bird sings in the tree.")>>))

ScenarioFlags(dirty) ==
    (PLAYER :> ({Scenery, Seen(CLEARING)} \cup (IF dirty THEN {DIRTY_HANDS} ELSE {})))
    @@ (CLEARING :> {}) @@ (TRAIL :> {}) @@ (BRIDGE :> {HAS_WATER})
    @@ (STREAM :> {Scenery}) @@ (NOTE :> {}) @@ (SWORD :> {})
    @@ (TREE :> {Immovable, Scenery}) @@ (HANDS :> {Immovable, Scenery})
    @@ (RULE_DIRTY_NOTE :> {}) @@ (RULE_SWORD_GET :> {})
    @@ (RULE_STORY_1 :> {FireOnce}) @@ (FAIRY_GODMOTHER_RULE :> {})
    @@ (GUARD_SWORD_NOTE :> {}) @@ (ON_GET_SWORD :> {FireOnce})
    @@ (GUARD_ENTER_BRIDGE :> {}) @@ (ON_ENTER_BRIDGE :> {})
    @@ (GUARD_READ_NOTE :> {}) @@ (ON_READ_NOTE :> {})
    @@ (ON_GET_NOTE_DIRTY :> {})
    @@ (RULE_DAWN :> {FireOnce}) @@ (RULE_BIRDSONG :> {})

\* The custom commands, in registration order.
ScenarioHandlers ==
    <<[pattern |-> "VerbNoun", verb |-> "wash", noun |-> "hands", hook |-> "wash_hands"],
      [pattern |-> "VerbVisible", verb |-> "wash", noun |-> "", hook |-> "wash_thing"],
      [pattern |-> "VerbNoun", verb |-> "get", noun |-> "unicorn", hook |-> "get_unicorn"],
      [pattern |-> "VerbNoun", verb |-> "examine", noun |-> "note",
       hook |-> "examine_note"]>>

build(dirty) ==
    [tags |-> ScenarioTags,
     pid |-> PLAYER,
     clock |-> 0,
     things |-> ScenarioThings,
     books |-> {NOTE},
     rooms |-> ScenarioRooms,
     locations |-> ScenarioLocations,
     inventories |-> ScenarioInventories,
     flag_sets |-> ScenarioFlags(dirty),
     rules |-> ScenarioRules,
     command_handlers |-> ScenarioHandlers]

-----------------------------------------------------------------------------
(* Physical system: queries *)

loc(w, thing) == w.locations[thing]

follow_link(w, room, dir) ==
    IF dir \in DOMAIN w.rooms[room] THEN {w.rooms[room][dir]} ELSE {}

owns(w, container, thing) == thing \in w.inventories[container]

contents(w, container) == w.inventories[container]

scenery(w, owner) == {id \in contents(w, owner) : has_flag(w, id, Scenery)}

non_scenery(w, owner) == {id \in contents(w, owner) : ~has_flag(w, id, Scenery)}

immovable(w, owner) == {id \in contents(w, owner) : has_flag(w, id, Immovable)}

\* visible, looking also into the containers that are in view.
visible_nested(w, viewer) ==
    LET own == IF has_inventory(w, viewer) THEN contents(w, viewer) ELSE {}
        here == IF has_location(w, viewer) THEN contents(w, loc(w, viewer)) ELSE {}
    IN  own \cup here \cup
        UNION {contents(w, c) : c \in {x \in own \cup here : has_inventory(w, x)}}

visible(w, viewer) ==
    (IF has_inventory(w, viewer) THEN contents(w, viewer) ELSE {})
    \cup (IF has_location(w, viewer) THEN contents(w, loc(w, viewer)) ELSE {})

removable(w, owner) == {id \in contents(w, owner) : ~has_flag(w, id, Immovable)}

droppable(w, viewer) == removable(w, viewer)

\* gettable, with the Immovable flag not looked at.
gettable_anything(w, viewer) == contents(w, loc(w, viewer))

gettable(w, viewer) ==
    {id \in contents(w, loc(w, viewer)) : ~has_flag(w, id, Immovable)}

-----------------------------------------------------------------------------
(* Physical system: the primitive mutators.  Each is defined where the code *)
(* does not panic: the thing has a Location, its container and the target    *)
(* have an Inventory.                                                        *)

can_move(w, thing, container) ==
    /\ has_location(w, thing)
    /\ has_inventory(w, loc(w, thing))
    /\ has_inventory(w, container)

\* take_out, with the thing inserted into LIMBO before it is removed from its
\* container.
take_out_inserting_first(w, thing) ==
    LET container == loc(w, thing)
        w1 == [w EXCEPT !.inventories[LIMBO] = @ \cup {thing}]
        w2 == [w1 EXCEPT !.locations[thing] = LIMBO]
    IN  [w2 EXCEPT !.inventories[container] = @ \ {thing}]

take_out(w, thing) ==
    LET container == loc(w, thing)
        w1 == [w EXCEPT !.inventories[container] = @ \ {thing}]
        w2 == [w1 EXCEPT !.locations[thing] = LIMBO]
    IN  [w2 EXCEPT !.inventories[LIMBO] = @ \cup {thing}]

\* put_in, with the thing left in the inventory of its old container.
put_in_no_remove(w, thing, container) ==
    LET w2 == [w EXCEPT !.locations[thing] = container]
    IN  [w2 EXCEPT !.inventories[container] = @ \cup {thing}]

\* put_in, with the thing inserted into the container before it is removed from
\* where it was.
put_in_inserting_first(w, thing, container) ==
    LET there == loc(w, thing)
        w1 == [w EXCEPT !.inventories[container] = @ \cup {thing}]
        w2 == [w1 EXCEPT !.locations[thing] = container]
    IN  [w2 EXCEPT !.inventories[there] = @ \ {thing}]

\* put_in, with the bookkeeping of an arrival added: the thing is marked as having
\* seen its new container.
put_in_marking_seen(w, thing, container) ==
    LET there == loc(w, thing)
        w1 == [w EXCEPT !.inventories[there] = @ \ {thing}]
        w2 == [w1 EXCEPT !.locations[thing] = container]
        w3 == [w2 EXCEPT !.inventories[container] = @ \cup {thing}]
    IN  [w3 EXCEPT !.flag_sets[thing] = @ \cup {Seen(container)}]

put_in(w, thing, container) ==
    LET there == loc(w, thing)
        w1 == [w EXCEPT !.inventories[there] = @ \ {thing}]
        w2 == [w1 EXCEPT !.locations[thing] = container]
    IN  [w2 EXCEPT !.inventories[container] = @ \cup {thing}]


-----------------------------------------------------------------------------
(* Rendered text.  Every visual call appends one entry to the output.       *)

Msg(kind, id, text) == [kind |-> kind, id |-> id, text |-> text]

\* The running result of one step: the World so far, the text rendered so far,
\* the predicates evaluated so far and the rules whose scripts ran, in order.
Step(w) == [world |-> w, out |-> <<>>, evals |-> <<>>, fired |-> <<>>]

Say(r, kind, id, text) == [r EXCEPT !.out = Append(@, Msg(kind, id, text))]

-----------------------------------------------------------------------------
(* Scripts: ordered lists of primitive actions, applied in list order.      *)

apply_action(r, a) ==
    CASE a.op = "Print" -> Say(r, "print", 0, a.text)
      [] a.op = "SetFlag" -> [r EXCEPT !.world = set_flag(@, a.id, a.flag)]
      [] a.op = "UnsetFlag" -> [r EXCEPT !.world = unset_flag(@, a.id, a.flag)]
      [] a.op = "Forget" -> [r EXCEPT !.world = take_out(@, a.id)]
      [] a.op = "Kill" -> [r EXCEPT !.world = set_flag(@, a.id, Dead)]
      [] a.op = "Revive" -> [r EXCEPT !.world = unset_flag(@, a.id, Dead)]

RECURSIVE execute(_, _)
execute(script, r) ==
    IF script = <<>> THEN r
    ELSE execute(Tail(script), apply_action(r, Head(script)))

-----------------------------------------------------------------------------
(* Rule predicates: the closures of the scenario, by name.                  *)

predicate(name, w) ==
    CASE name = "dirty_note" ->
            has_flag(w, w.pid, DIRTY_HANDS) /\ ~has_flag(w, NOTE, DIRTY)
      [] name = "clean_hands" -> ~has_flag(w, w.pid, DIRTY_HANDS)
      [] name = "clock_zero" -> w.clock = 0
      [] name = "player_dead" -> has_flag(w, w.pid, Dead)
      [] name = "note_clean" -> ~has_flag(w, NOTE, DIRTY)
      [] name = "note_dirty" -> has_flag(w, NOTE, DIRTY)
      [] name = "tree_lit" -> has_flag(w, TREE, LIT)
      [] name = "not_holding_note" -> ~owns(w, w.pid, NOTE)
      [] name = "always" -> TRUE

-----------------------------------------------------------------------------
(* Rule engine *)

RECURSIVE ascending(_)
ascending(S) ==
    IF S = {} THEN <<>>
    ELSE LET m == CHOOSE x \in S : \A y \in S : x <= y
         IN  <<m>> \o ascending(S \ {m})

\* The rules bound to an event, guards or not, in the order of World.rules.
bound_rules(w, event, guards) ==
    ascending({id \in DOMAIN w.rules :
                 w.rules[id].event = event /\ w.rules[id].is_guard = guards})

\* armed, with the Fired flag never consulted.
armed_ignoring_fired(w, id) == TRUE

\* armed, with every rule disarmed by its Fired flag, once-only or not.
armed_until_fired(w, id) == ~has_flag(w, id, Fired)

armed(w, id) == ~has_flag(w, id, FireOnce) \/ ~has_flag(w, id, Fired)

Eval(r, id, kind, holds) ==
    [r EXCEPT !.evals = Append(@, [rule |-> id, kind |-> kind, holds |-> holds,
                                   locations |-> r.world.locations,
                                   flags |-> r.world.flag_sets[r.world.pid]])]

fire_rule(r, id) ==
    [execute(r.world.rules[id].script, r) EXCEPT !.fired = Append(@, id)]

RECURSIVE run_rules(_, _, _)
run_rules(ids, kind, r) ==
    IF ids = <<>> THEN r
    ELSE LET id == Head(ids)
             holds == predicate(r.world.rules[id].predicate, r.world)
             r1 == Eval(r, id, kind, holds)
             r2 == fire_rule(r1, id)
         IN  IF holds
             THEN run_rules(Tail(ids), kind, [r2 EXCEPT !.world = set_flag(@, id, Fired)])
             ELSE run_rules(Tail(ids), kind, r1)

\* The rule monitor, with every predicate evaluated against the World as it was
\* when the pass began.
RECURSIVE run_rules_on(_, _, _, _)
run_rules_on(ids, kind, r, w0) ==
    IF ids = <<>> THEN r
    ELSE LET id == Head(ids)
             holds == predicate(r.world.rules[id].predicate, w0)
             r1 == Eval(r, id, kind, holds)
             r2 == fire_rule(r1, id)
         IN  IF holds
             THEN run_rules_on(Tail(ids), kind,
                               [r2 EXCEPT !.world = set_flag(@, id, Fired)], w0)
             ELSE run_rules_on(Tail(ids), kind, r1, w0)

rule_system_on_snapshot(r) ==
    LET rules == SelectSeq(bound_rules(r.world, Turn, FALSE),
                           LAMBDA id : armed(r.world, id))
    IN  run_rules_on(rules, "turn", r, r.world)

\* The rule monitor, run as if the turn counter had already been incremented.
rule_system_after_tick(r) ==
    LET rules == SelectSeq(bound_rules(r.world, Turn, FALSE),
                           LAMBDA id : armed(r.world, id))
        r1 == run_rules(rules, "turn", [r EXCEPT !.world.clock = @ + 1])
    IN  [r1 EXCEPT !.world.clock = @ - 1]

\* The rule monitor, passing over every rule that is marked Fired.
rule_system_skipping_fired(r) ==
    LET rules == SelectSeq(bound_rules(r.world, Turn, FALSE),
                           LAMBDA id : ~has_flag(r.world, id, Fired))
    IN  run_rules(rules, "turn", r)

\* The rule monitor: one pass over the every-turn rules.
rule_system(r) ==
    LET rules == SelectSeq(bound_rules(r.world, Turn, FALSE),
                           LAMBDA id : armed(r.world, id))
    IN  run_rules(rules, "turn", r)

\* The triggers bound to an event that has happened.
fire_event(r, event) ==
    LET rules == SelectSeq(bound_rules(r.world, event, FALSE),
                           LAMBDA id : armed(r.world, id))
    IN  run_rules(rules, "trigger", r)

\* The guards bound to an event: the first whose predicate fails denies the
\* event and runs its own script.
RECURSIVE run_guards(_, _)
run_guards(ids, r) ==
    IF ids = <<>> THEN [ok |-> TRUE, r |-> r]
    ELSE LET id == Head(ids)
             holds == predicate(r.world.rules[id].predicate, r.world)
             r1 == Eval(r, id, "guard", holds)
         IN  IF holds THEN run_guards(Tail(ids), r1)
             ELSE [ok |-> FALSE, r |-> fire_rule(r1, id)]

allows(r, event) == run_guards(bound_rules(r.world, event, TRUE), r)


-----------------------------------------------------------------------------
(* Physical system: the guarded operations *)

\* enter_room, with the guards never asked.
enter_room_unguarded(r, pid, room) ==
    LET w1 == put_in(r.world, pid, room)
        r1 == [r EXCEPT !.world = w1]
        r2 == IF ~has_flag(w1, pid, Seen(room))
              THEN Say(r1, "room", room, "")
              ELSE Say(r1, "room_brief", room, "")
        r3 == [r2 EXCEPT !.world = set_flag(@, pid, Seen(room))]
    IN  fire_event(r3, EnterRoom(pid, room))

\* enter_room, with Seen set before the description is chosen.
enter_room_marking_first(r, pid, room) ==
    LET a == allows(r, EnterRoom(pid, room))
        w1 == set_flag(put_in(a.r.world, pid, room), pid, Seen(room))
        r1 == [a.r EXCEPT !.world = w1]
        r2 == IF ~has_flag(w1, pid, Seen(room))
              THEN Say(r1, "room", room, "")
              ELSE Say(r1, "room_brief", room, "")
    IN  IF a.ok THEN fire_event(r2, EnterRoom(pid, room)) ELSE a.r

enter_room(r, pid, room) ==
    LET a == allows(r, EnterRoom(pid, room))
        w1 == put_in(a.r.world, pid, room)
        r1 == [a.r EXCEPT !.world = w1]
        r2 == IF ~has_flag(w1, pid, Seen(room))
              THEN Say(r1, "room", room, "")
              ELSE Say(r1, "room_brief", room, "")
        r3 == [r2 EXCEPT !.world = set_flag(@, pid, Seen(room))]
    IN  IF a.ok THEN fire_event(r3, EnterRoom(pid, room)) ELSE a.r

\* get_thing, with the guards' answer ignored.
get_thing_ignoring_denial(r, pid, thing) ==
    LET a == allows(r, GetThing(pid, thing))
        r1 == [a.r EXCEPT !.world = put_in(@, thing, pid)]
    IN  fire_event(Say(r1, "act", 0, "Taken."), GetThing(pid, thing))

\* get_thing, with the triggers fired before the thing is moved.
get_thing_firing_first(r, pid, thing) ==
    LET a == allows(r, GetThing(pid, thing))
        r1 == fire_event(a.r, GetThing(pid, thing))
        r2 == [r1 EXCEPT !.world = put_in(@, thing, pid)]
    IN  IF a.ok THEN Say(r2, "act", 0, "Taken.") ELSE a.r

\* get_thing, with the thing moved before the guards are asked.
get_thing_moving_first(r, pid, thing) ==
    LET r1 == [r EXCEPT !.world = put_in(@, thing, pid)]
        a == allows(r1, GetThing(pid, thing))
        r2 == Say(a.r, "act", 0, "Taken.")
    IN  IF a.ok THEN fire_event(r2, GetThing(pid, thing)) ELSE a.r

get_thing(r, pid, thing) ==
    LET a == allows(r, GetThing(pid, thing))
        r1 == [a.r EXCEPT !.world = put_in(@, thing, pid)]
        r2 == Say(r1, "act", 0, "Taken.")
    IN  IF a.ok THEN fire_event(r2, GetThing(pid, thing)) ELSE a.r

read_thing(r, pid, thing) ==
    LET a == allows(r, ReadThing(pid, thing))
        r1 == Say(a.r, "read", thing, "")
    IN  IF a.ok THEN fire_event(r1, ReadThing(pid, thing)) ELSE a.r

-----------------------------------------------------------------------------
(* Player control: results, nouns, custom command handlers *)

NONE == -1

Ok(st, r) == [st |-> st, msg |-> "", r |-> r]
Err(msg, r) == [st |-> "Error", msg |-> msg, r |-> r]
Panic(r) == [st |-> "Panic", msg |-> "", r |-> r]

\* The first (lowest) identity among ids whose noun is the given one.
find_noun(w, ids, noun) ==
    LET found == {id \in ids : w.things[id] = noun}
    IN  IF found = {} THEN NONE
        ELSE CHOOSE id \in found : \A other \in found : id <= other

matches(handler, words) ==
    CASE handler.pattern = "Verb" -> Len(words) = 1 /\ words[1] = handler.verb
      [] handler.pattern = "VerbNoun" ->
            Len(words) = 2 /\ words[1] = handler.verb /\ words[2] = handler.noun
      [] handler.pattern = "VerbVisible" -> Len(words) = 2 /\ words[1] = handler.verb

\* The hooks of the scenario, by name: the actions the hook has put in the
\* script, and the error it returns, if any.
hook(name, w, words) ==
    CASE name = "wash_hands" ->
            IF ~has_flag(w, loc(w, w.pid), HAS_WATER)
            THEN [err |-> "That'd be a neat trick.", script |-> <<>>]
            ELSE [err |-> "",
                  script |-> <<ActPrint("You wash your hands in the water."),
                               ActUnsetFlag(w.pid, DIRTY_HANDS)>>]
      [] name = "wash_thing" ->
            LET id == find_noun(w, DOMAIN w.things, words[2])
            IN  [err |-> IF has_flag(w, loc(w, w.pid), HAS_WATER) THEN ""
                         ELSE "There is no water here.",
                 script |-> <<ActPrint("The dirt smears, then lifts."),
                              ActSetFlag(id, DIRTY),
                              ActUnsetFlag(id, DIRTY)>>]
      [] name = "get_unicorn" ->
            [err |-> "", script |-> <<ActPrint("Unicorns are not for taking.")>>]
      [] name = "examine_note" ->
            [err |-> IF has_flag(w, NOTE, DIRTY) THEN "It is too dirty to make out."
                     ELSE "",
             script |-> <<ActPrint("A crumpled note.")>>]

\* CommandHandler::execute, with the script executed before the hook's error is
\* looked at.
handler_execute_applying_first(handler, r, player, words) ==
    LET h == hook(handler.hook, r.world, words)
    IN  IF /\ handler.pattern = "VerbVisible"
           /\ find_noun(r.world, visible(r.world, player.id), words[2]) = NONE
        THEN Err("You don't see any such thing.", r)
        ELSE IF h.err # "" THEN Err(h.err, execute(h.script, r))
        ELSE Ok("Normal", execute(h.script, r))

handler_execute(handler, r, player, words) ==
    LET h == hook(handler.hook, r.world, words)
    IN  IF /\ handler.pattern = "VerbVisible"
           /\ find_noun(r.world, visible(r.world, player.id), words[2]) = NONE
        THEN Err("You don't see any such thing.", r)
        ELSE IF h.err # "" THEN Err(h.err, r)
        ELSE Ok("Normal", execute(h.script, r))

-----------------------------------------------------------------------------
(* Player control: the built-in commands *)

cmd_help(r) == Ok("Normal", Say(r, "info", 0, "help"))

\* cmd_go, with a dead end entered like a room.
cmd_go_entering_dead_end(r, player, dir) ==
    LET link == follow_link(r.world, player.loc, dir)
        dest == CHOOSE d \in link : TRUE
    IN  IF ~is_room(r.world, player.loc) THEN Panic(r)
        ELSE IF link = {} THEN Err("You can't go that way.", r)
        ELSE Ok("Normal", enter_room(Say(r, "info", 0, dest.text), player.id, dest.id))

cmd_go(r, player, dir) ==
    LET link == follow_link(r.world, player.loc, dir)
        dest == CHOOSE d \in link : TRUE
    IN  IF ~is_room(r.world, player.loc) THEN Panic(r)
        ELSE IF link = {} THEN Err("You can't go that way.", r)
        ELSE IF dest.kind = "Room" THEN Ok("Normal", enter_room(r, player.id, dest.id))
        ELSE Ok("Normal", Say(r, "info", 0, dest.text))

cmd_look(r, player) == Ok("Normal", Say(r, "room", player.loc, ""))

cmd_inventory(r, player) == Ok("Normal", Say(r, "inventory", player.id, ""))

cmd_examine(r, player, name) ==
    LET thing == find_noun(r.world, visible(r.world, player.id), name)
    IN  IF thing = NONE THEN Err("You don't see any such thing.", r)
        ELSE IF thing = player.id THEN Ok("Normal", Say(r, "player", thing, ""))
        ELSE Ok("Normal", Say(r, "thing", thing, ""))

can_read(w, thing) == thing \in w.books

cmd_read(r, player, name) ==
    LET thing == find_noun(r.world, visible(r.world, player.id), name)
    IN  IF thing = NONE THEN Err("You don't see any such thing.", r)
        ELSE IF ~can_read(r.world, thing) THEN Err("You can't read that.", r)
        ELSE IF owns(r.world, player.id, thing) \/ has_flag(r.world, thing, Immovable)
        THEN Ok("Normal", read_thing(r, player.id, thing))
        ELSE Err("You don't have it.", r)

\* cmd_get, with the thing taken before the checks that reject the command.
cmd_get_taking_first(r, player, noun) ==
    LET thing == find_noun(r.world, contents(r.world, player.loc), noun)
        r1 == [r EXCEPT !.world = put_in(@, thing, player.id)]
    IN  IF find_noun(r.world, contents(r.world, player.id), noun) # NONE
        THEN Err("You already have that.", r)
        ELSE IF find_noun(r.world, immovable(r.world, player.loc), noun) # NONE
        THEN Err("You can't take that!", r1)
        ELSE IF thing # NONE THEN Ok("Normal", get_thing(r, player.id, thing))
        ELSE Err("You don't see any such thing.", r)

\* cmd_get, without the refusal of the immovable things of the room.
cmd_get_skipping_immovable(r, player, noun) ==
    LET thing == find_noun(r.world, contents(r.world, player.loc), noun)
    IN  IF find_noun(r.world, contents(r.world, player.id), noun) # NONE
        THEN Err("You already have that.", r)
        ELSE IF thing # NONE THEN Ok("Normal", get_thing(r, player.id, thing))
        ELSE Err("You don't see any such thing.", r)

cmd_get(r, player, noun) ==
    LET thing == find_noun(r.world, gettable(r.world, player.id), noun)
    IN  IF find_noun(r.world, contents(r.world, player.id), noun) # NONE
        THEN Err("You already have that.", r)
        ELSE IF find_noun(r.world, immovable(r.world, player.loc), noun) # NONE
        THEN Err("You can't take that!", r)
        ELSE IF thing # NONE THEN Ok("Normal", get_thing(r, player.id, thing))
        ELSE Err("You don't see any such thing.", r)

\* cmd_drop, with the thing taken out of the game instead of put in the room.
cmd_drop_taking_out(r, player, noun) ==
    LET thing == find_noun(r.world, droppable(r.world, player.id), noun)
    IN  IF thing # NONE
        THEN Ok("Normal", Say([r EXCEPT !.world = take_out(@, thing)],
                              "act", 0, "Dropped."))
        ELSE IF find_noun(r.world, scenery(r.world, player.id), noun) # NONE
        THEN Err("You can't drop that!", r)
        ELSE IF find_noun(r.world, visible(r.world, player.id), noun) # NONE
        THEN Err("You aren't carrying that.", r)
        ELSE Err("You don't see any such thing.", r)

cmd_drop(r, player, noun) ==
    LET thing == find_noun(r.world, droppable(r.world, player.id), noun)
    IN  IF thing # NONE
        THEN Ok("Normal", Say([r EXCEPT !.world = put_in(@, thing, player.loc)],
                              "act", 0, "Dropped."))
        ELSE IF find_noun(r.world, scenery(r.world, player.id), noun) # NONE
        THEN Err("You can't drop that!", r)
        ELSE IF find_noun(r.world, visible(r.world, player.id), noun) # NONE
        THEN Err("You aren't carrying that.", r)
        ELSE Err("You don't see any such thing.", r)


-----------------------------------------------------------------------------
(* The Game: the live World and the undo history *)

has_undo(stack) == stack # <<>>

\* Pushes a World; only the MaxUndo most recent are retained.
save_for_undo(stack, undo_info) ==
    LET s == Append(stack, undo_info)
    IN  IF Len(s) > MaxUndo THEN SubSeq(s, Len(s) - MaxUndo + 1, Len(s)) ELSE s

undo_world(stack) == stack[Len(stack)]

undo_rest(stack) == SubSeq(stack, 1, Len(stack) - 1)

\* cmd_undo, answering "Undone." when there is nothing to undo.
cmd_undo_accepting(r, stack) ==
    IF has_undo(stack) THEN Ok("Undo", Say(r, "act", 0, "Undone."))
    ELSE Ok("Normal", Say(r, "act", 0, "Undone."))

cmd_undo(r, stack) ==
    IF has_undo(stack) THEN Ok("Undo", Say(r, "act", 0, "Undone."))
    ELSE Err("Nothing to undo.", r)

cmd_restart(r) == Ok("Restart", Say(r, "act", 0, "Restarting..."))

cmd_quit(r) == Ok("Exit", Say(r, "act", 0, "Bye, then."))

-----------------------------------------------------------------------------
(* Player control: debugging commands *)

lookup_id(w, tag) ==
    IF \E i \in DOMAIN w.tags : w.tags[i] = tag
    THEN (CHOOSE i \in DOMAIN w.tags : w.tags[i] = tag) - 1
    ELSE NONE

\* str::parse::<usize> on the tokens the model feeds.
parse_usize(token) ==
    CASE token = "3" -> 3
      [] token = "99" -> 99
      [] OTHER -> NONE

parse_id(w, token) ==
    IF lookup_id(w, token) # NONE THEN lookup_id(w, token)
    ELSE IF parse_usize(token) = NONE THEN NONE
    ELSE IF parse_usize(token) + 1 \notin DOMAIN w.tags THEN NONE
    ELSE parse_usize(token)

cmd_debug_list(r) == Ok("Normal", Say(r, "debug", 0, "list"))

cmd_debug_dump(r, id_arg) ==
    LET id == parse_id(r.world, id_arg)
    IN  IF id = NONE THEN Err("Not an ID", r)
        ELSE Ok("Normal", Say(r, "debug", id, "dump"))

cmd_debug_look(r, id_arg) ==
    LET id == parse_id(r.world, id_arg)
    IN  IF id = NONE THEN Err("Not an ID", r)
        ELSE IF is_room(r.world, id) THEN Ok("Normal", Say(r, "room", id, ""))
        ELSE Err("Entity is not a room.", r)

cmd_debug_examine(r, id_arg) ==
    LET id == parse_id(r.world, id_arg)
    IN  IF id = NONE THEN Err("Not an ID", r)
        ELSE IF is_thing(r.world, id) THEN Ok("Normal", Say(r, "thing", id, ""))
        ELSE Err("Entity is not a thing.", r)

\* cmd_debug_go, going through enter_room as the player's own `go` does.
cmd_debug_go_entering(r, player, id_arg) ==
    LET room == parse_id(r.world, id_arg)
    IN  IF room = NONE THEN Err("Not an ID", r)
        ELSE IF is_room(r.world, room)
        THEN Ok("Normal", enter_room(r, player.id, room))
        ELSE Err("Entity is not a room.", r)

cmd_debug_go(r, player, id_arg) ==
    LET room == parse_id(r.world, id_arg)
    IN  IF room = NONE THEN Err("Not an ID", r)
        ELSE IF is_room(r.world, room)
        THEN Ok("Normal", Say([r EXCEPT !.world = put_in(@, player.id, room)],
                              "room", room, ""))
        ELSE Err("Entity is not a room.", r)

handle_debug_command(r, player, words) ==
    CASE words = <<"list">> -> cmd_debug_list(r)
      [] Len(words) = 2 /\ words[1] = "dump" -> cmd_debug_dump(r, words[2])
      [] Len(words) = 2 /\ words[1] = "look" -> cmd_debug_look(r, words[2])
      [] Len(words) = 2 /\ words[1] = "examine" -> cmd_debug_examine(r, words[2])
      [] Len(words) = 2 /\ words[1] = "go" -> cmd_debug_go(r, player, words[2])
      [] OTHER -> Err("I don't understand.", r)

-----------------------------------------------------------------------------
(* Player control: normal commands *)

Dirs == {"north", "south", "east", "west"}

builtin_command(r, stack, player, words) ==
    CASE Len(words) = 2 /\ words[1] = "go" /\ words[2] \in Dirs ->
            cmd_go(r, player, words[2])
      [] Len(words) = 1 /\ words[1] \in Dirs -> cmd_go(r, player, words[1])
      [] words = <<"help">> -> cmd_help(r)
      [] words = <<"look">> -> cmd_look(r, player)
      [] words = <<"inventory">> -> cmd_inventory(r, player)
      [] Len(words) = 2 /\ words[1] = "examine" -> cmd_examine(r, player, words[2])
      [] Len(words) = 2 /\ words[1] = "read" -> cmd_read(r, player, words[2])
      [] Len(words) = 2 /\ words[1] = "get" -> cmd_get(r, player, words[2])
      [] Len(words) = 3 /\ words[1] = "pick" /\ words[2] = "up" ->
            cmd_get(r, player, words[3])
      [] Len(words) = 2 /\ words[1] = "drop" -> cmd_drop(r, player, words[2])
      [] words = <<"undo">> -> cmd_undo(r, stack)
      [] words = <<"restart">> -> cmd_restart(r)
      [] words = <<"quit">> -> cmd_quit(r)
      [] OTHER -> Err("I don't understand.", r)

\* handle_normal_command, with the built-in commands tried before the custom ones.
handle_normal_command_builtin_first(r, stack, player, words) ==
    LET handlers == r.world.command_handlers
        matching == {i \in DOMAIN handlers : matches(handlers[i], words)}
        first == CHOOSE i \in matching : \A j \in matching : i <= j
        builtin == builtin_command(r, stack, player, words)
    IN  IF builtin.msg # "I don't understand." \/ matching = {} THEN builtin
        ELSE handler_execute(handlers[first], r, player, words)

\* handle_normal_command, going on to the later custom commands and to the
\* built-in commands when a custom command returns an error.
handle_normal_command_falling_through(r, stack, player, words) ==
    LET handlers == r.world.command_handlers
        accepting == {i \in DOMAIN handlers :
                        /\ matches(handlers[i], words)
                        /\ handler_execute(handlers[i], r, player, words).st = "Normal"}
        first == CHOOSE i \in accepting : \A j \in accepting : i <= j
    IN  IF accepting # {} THEN handler_execute(handlers[first], r, player, words)
        ELSE builtin_command(r, stack, player, words)

handle_normal_command(r, stack, player, words) ==
    LET handlers == r.world.command_handlers
        matching == {i \in DOMAIN handlers : matches(handlers[i], words)}
        first == CHOOSE i \in matching : \A j \in matching : i <= j
    IN  IF matching # {} THEN handler_execute(handlers[first], r, player, words)
        ELSE builtin_command(r, stack, player, words)

handle_input(r, stack, player, input) ==
    IF input.parse_error THEN Err("I don't understand.", r)
    ELSE IF input.is_debug THEN handle_debug_command(r, player, input.words)
    ELSE handle_normal_command(r, stack, player, input.words)

\* The outcome of player_control::system: the Game afterwards, the status and
\* what was rendered and evaluated.
Outcome(w, stack, res, r) ==
    [world |-> w, undo_stack |-> stack, status |-> res.st,
     out |-> r.out, evals |-> r.evals, fired |-> r.fired]

\* match_result, with undo restoring everything but the flags.
match_result_undo_keeping_flags(undo_info, stack, dirty, res) ==
    CASE res.st = "Error" ->
            Outcome(res.r.world, stack, res, Say(res.r, "error", 0, res.msg))
      [] res.st = "Normal" ->
            Outcome(res.r.world, save_for_undo(stack, undo_info), res, res.r)
      [] res.st = "Restart" -> Outcome(build(dirty), <<>>, res, res.r)
      [] res.st = "Undo" ->
            Outcome([undo_world(stack) EXCEPT !.flag_sets = res.r.world.flag_sets],
                    undo_rest(stack), res, res.r)
      [] OTHER -> Outcome(res.r.world, stack, res, res.r)

\* match_result, with an undo point saved only for a command that changed the
\* World.
match_result_saving_changes(undo_info, stack, dirty, res) ==
    CASE res.st = "Error" ->
            Outcome(res.r.world, stack, res, Say(res.r, "error", 0, res.msg))
      [] res.st = "Normal" ->
            Outcome(res.r.world,
                    IF res.r.world = undo_info THEN stack
                    ELSE save_for_undo(stack, undo_info), res, res.r)
      [] res.st = "Restart" -> Outcome(build(dirty), <<>>, res, res.r)
      [] res.st = "Undo" -> Outcome(undo_world(stack), undo_rest(stack), res, res.r)
      [] OTHER -> Outcome(res.r.world, stack, res, res.r)

\* match_result, with the World a rejected input found saved as the undo point.
match_result_saving_rejected(undo_info, stack, dirty, res) ==
    CASE res.st = "Error" ->
            Outcome(res.r.world, save_for_undo(stack, undo_info), res,
                    Say(res.r, "error", 0, res.msg))
      [] res.st = "Normal" ->
            Outcome(res.r.world, save_for_undo(stack, undo_info), res, res.r)
      [] res.st = "Restart" -> Outcome(build(dirty), <<>>, res, res.r)
      [] res.st = "Undo" -> Outcome(undo_world(stack), undo_rest(stack), res, res.r)
      [] OTHER -> Outcome(res.r.world, stack, res, res.r)

\* system: what becomes of the Game once the input has been handled.
match_result(undo_info, stack, dirty, res) ==
    CASE res.st = "Error" ->
            Outcome(res.r.world, stack, res, Say(res.r, "error", 0, res.msg))
      [] res.st = "Normal" ->
            Outcome(res.r.world, save_for_undo(stack, undo_info), res, res.r)
      [] res.st = "Restart" -> Outcome(build(dirty), <<>>, res, res.r)
      [] res.st = "Undo" -> Outcome(undo_world(stack), undo_rest(stack), res, res.r)
      [] OTHER -> Outcome(res.r.world, stack, res, res.r)

\* match_result, with no undo point saved for a debug command.
match_result_skipping_debug(undo_info, stack, dirty, input, res) ==
    IF input.is_debug /\ res.st = "Normal"
    THEN Outcome(res.r.world, stack, res, res.r)
    ELSE match_result(undo_info, stack, dirty, res)

\* match_result, with the World after the command saved as the undo point.
match_result_saving_after(stack, dirty, res) ==
    match_result(res.r.world, stack, dirty, res)

\* player_control::system, saving an undo point for non-debug commands only.
player_control_system_skipping_debug(w, stack, dirty, input) ==
    LET undo_info == w
        player == [id |-> w.pid, loc |-> loc(w, w.pid)]
    IN  match_result_skipping_debug(undo_info, stack, dirty, input,
                                    handle_input(Step(w), stack, player, input))

\* player_control::system, taking the undo copy after the command has run.
player_control_system_saving_after(w, stack, dirty, input) ==
    LET player == [id |-> w.pid, loc |-> loc(w, w.pid)]
    IN  match_result_saving_after(stack, dirty,
                                  handle_input(Step(w), stack, player, input))

player_control_system(w, stack, dirty, input) ==
    LET undo_info == w
        player == [id |-> w.pid, loc |-> loc(w, w.pid)]
    IN  match_result(undo_info, stack, dirty,
                     handle_input(Step(w), stack, player, input))


-----------------------------------------------------------------------------
(* The inputs the console can deliver, as the parser hands them on *)

Command(words) == [words |-> words, is_debug |-> FALSE, parse_error |-> FALSE]
Debug(words) == [words |-> words, is_debug |-> TRUE, parse_error |-> FALSE]
Unparsed == [words |-> <<>>, is_debug |-> FALSE, parse_error |-> TRUE]
NoInput == [words |-> <<"-">>, is_debug |-> FALSE, parse_error |-> FALSE]

Nouns == {"note", "sword", "stream", "self", "tree", "hands", "unicorn"}

Inputs ==
    {Command(<<d>>) : d \in {"east", "west", "north"}}
    \cup {Command(<<v, n>>) : v \in {"get", "drop"}, n \in Nouns}
    \cup {Command(<<"read", n>>) : n \in {"note", "sword", "unicorn"}}
    \cup {Command(<<"examine", n>>) : n \in {"self", "unicorn", "note"}}
    \cup {Command(<<"wash", n>>) : n \in {"hands", "note", "unicorn"}}
    \cup {Command(<<"look">>), Command(<<"help">>), Command(<<"inventory">>),
          Command(<<"undo">>),
          Command(<<"restart">>), Command(<<"quit">>), Command(<<"xyzzy">>), Unparsed}
    \cup {Debug(<<"go", t>>) : t \in {"trail", "bridge", "note", "nowhere", "3"}}
    \cup {Debug(<<"list">>), Debug(<<"look", "trail">>), Debug(<<"examine", "99">>),
          Debug(<<"undo">>)}

-----------------------------------------------------------------------------
(* The command loop *)

Count(seq, id) == Cardinality({i \in DOMAIN seq : seq[i] = id})

OnceRules == {id \in DOMAIN ScenarioRules : FireOnce \in ScenarioFlags(TRUE)[id]}

NoFirings == [id \in OnceRules |-> 0]

\* Firings are counted as long as the run holds no undo and no restart.
Counted(count, fired, stillClean) ==
    IF stillClean THEN [id \in DOMAIN count |-> count[id] + Count(fired, id)]
    ELSE NoFirings

Init ==
    /\ scenario \in BOOLEAN
    /\ world = build(scenario)
    /\ undo_stack = <<>>
    /\ pc = "input"
    /\ cmd = NoInput
    /\ status = "None"
    /\ pre = world
    /\ out = <<>>
    /\ evals = <<>>
    /\ fireCount = NoFirings
    /\ clean = TRUE
    /\ expectations = {}

\* The Game and the observations after player_control::system has returned g.
Returned(g) ==
    /\ world' = g.world
    /\ undo_stack' = g.undo_stack
    /\ status' = g.status
    /\ out' = g.out
    /\ evals' = g.evals
    /\ clean' = (clean /\ g.status \notin {"Undo", "Restart"})
    /\ fireCount' = Counted(fireCount, g.fired, clean')
    /\ pc' = CASE g.status = "Exit" -> "exited"
               [] g.status = "Panic" -> "panicked"
               [] OTHER -> "rules"

\* console::get_command and player_control::system
Input(input) ==
    /\ pc = "input"
    /\ world.clock < MaxClock
    /\ Returned(player_control_system(world, undo_stack, scenario, input))
    /\ cmd' = input
    /\ pre' = world
    /\ UNCHANGED <<expectations, scenario>>

\* rule::system
RulePass ==
    /\ pc = "rules"
    /\ LET r == rule_system(Step(world))
       IN  /\ world' = r.world
           /\ out' = out \o r.out
           /\ evals' = evals \o r.evals
           /\ fireCount' = Counted(fireCount, r.fired, clean)
    /\ pc' = "clock"
    /\ UNCHANGED <<undo_stack, cmd, status, pre, clean, expectations, scenario>>

\* world.clock += 1
Tick ==
    /\ pc = "clock"
    /\ world' = [world EXCEPT !.clock = @ + 1]
    /\ pc' = "input"
    /\ cmd' = NoInput
    /\ out' = <<>>
    /\ evals' = <<>>
    /\ UNCHANGED <<undo_stack, status, pre, fireCount, clean, expectations, scenario>>

Next == (\E input \in Inputs : Input(input)) \/ RulePass \/ Tick

Spec == Init /\ [][Next]_vars


-----------------------------------------------------------------------------
(* The primitive mutators on their own: any sequence of put_in and take_out *)
(* calls, starting from the built World.  pc names the last call.          *)

PhysPutIn ==
    /\ pc # "panicked"
    /\ \E thing \in DOMAIN world.locations, container \in DOMAIN world.inventories :
          /\ can_move(world, thing, container)
          /\ world' = put_in(world, thing, container)
    /\ pc' = "put_in"
    /\ UNCHANGED <<undo_stack, cmd, status, pre, out, evals, fireCount, clean,
                   expectations, scenario>>

PhysTakeOut ==
    /\ pc # "panicked"
    /\ \E thing \in DOMAIN world.locations :
          /\ can_move(world, thing, LIMBO)
          /\ world' = take_out(world, thing)
    /\ pc' = "take_out"
    /\ UNCHANGED <<undo_stack, cmd, status, pre, out, evals, fireCount, clean,
                   expectations, scenario>>

NextPhys == PhysPutIn \/ PhysTakeOut

InitPhys == Init /\ scenario = TRUE

SpecPhys == InitPhys /\ [][NextPhys]_vars

-----------------------------------------------------------------------------
(* The calls of the physical system on their own, on entities with and      *)
(* without the components they need.  A failed assertion or unwrap ends the  *)
(* process: pc = "panicked", and nothing is called any more.                 *)

\* aborts, with put_in returning although the container has no Inventory.
aborts_unless_put_in(w, op, a, b) ==
    CASE op = "put_in" ->
            ~has_location(w, a) \/ ~has_inventory(w, loc(w, a))
      [] op = "take_out" ->
            ~has_location(w, a) \/ ~has_inventory(w, loc(w, a))
      [] op = "gettable" ->
            ~has_location(w, a) \/ ~has_inventory(w, loc(w, a))
      [] op = "owns" -> ~has_inventory(w, a) \/ ~has_location(w, b)
      [] op = "loc" -> ~has_location(w, a)
      [] op = "follow_link" -> ~is_room(w, a)
      [] OTHER -> ~has_inventory(w, a)

\* The call op(a, b) panics: an assertion fails, or an unwrap finds no component.
aborts(w, op, a, b) ==
    CASE op = "loc" -> ~has_location(w, a)
      [] op = "follow_link" -> ~is_room(w, a)
      [] op = "owns" -> ~has_inventory(w, a) \/ ~has_location(w, b)
      [] op \in {"contents", "scenery", "non_scenery", "immovable", "removable",
                 "droppable"} -> ~has_inventory(w, a)
      [] op = "gettable" ->
            ~has_location(w, a) \/ ~has_inventory(w, loc(w, a))
      [] op = "take_out" ->
            ~has_location(w, a) \/ ~has_inventory(w, loc(w, a))
      [] op = "put_in" ->
            \/ ~has_location(w, a)
            \/ ~has_inventory(w, loc(w, a))
            \/ ~has_inventory(w, b)

\* The World a panicking call leaves behind: put_in has already taken the thing
\* out of its container and renamed its location when the unwrap of the target's
\* Inventory fails; every other call panics before it has changed anything.
aborted(w, op, a, b) ==
    IF op = "put_in" /\ has_location(w, a) /\ has_inventory(w, loc(w, a))
    THEN LET w1 == [w EXCEPT !.inventories[loc(w, a)] = @ \ {a}]
         IN  [w1 EXCEPT !.locations[a] = b]
    ELSE w

PhysCall(op, a, b) ==
    /\ pc # "panicked"
    /\ IF aborts(world, op, a, b)
       THEN /\ pc' = "panicked"
            /\ world' = aborted(world, op, a, b)
       ELSE /\ pc' = op
            /\ world' = CASE op = "put_in" -> put_in(world, a, b)
                           [] op = "take_out" -> take_out(world, a)
                           [] OTHER -> world
    /\ cmd' = [op |-> op, a |-> a, b |-> b]
    /\ UNCHANGED <<undo_stack, status, pre, out, evals, fireCount, clean,
                   expectations, scenario>>

\* The calls are made on entities with Inventory only (LIMBO, the trail), with
\* Location only (note, sword), with both (the player) and with neither (a rule).
NextFatal ==
    \E op \in {"loc", "follow_link", "owns", "contents", "scenery", "non_scenery",
                "immovable", "removable", "droppable", "gettable", "take_out", "put_in"},
       a, b \in {LIMBO, PLAYER, TRAIL, NOTE, SWORD, RULE_STORY_1} :
        PhysCall(op, a, b)

SpecFatal == InitPhys /\ [][NextFatal]_vars

-----------------------------------------------------------------------------
(* The scenario builder (WorldBuilder) *)

EmptyFn == [x \in {} |-> 0]

\* World::new(): no entity, no component.
NewWorld ==
    [tags |-> <<>>, pid |-> 0, clock |-> 0, things |-> EmptyFn, books |-> {},
     rooms |-> EmptyFn, locations |-> EmptyFn, inventories |-> EmptyFn,
     flag_sets |-> EmptyFn, rules |-> EmptyFn, command_handlers |-> <<>>]

\* World::alloc: the identity of the tag, a new one if the tag is not yet known.
alloc(w, tag) ==
    IF lookup_id(w, tag) # NONE THEN [world |-> w, id |-> lookup_id(w, tag)]
    ELSE [world |-> [w EXCEPT !.tags = Append(@, tag)], id |-> Len(w.tags)]

add_inventory(w, id) ==
    IF id \notin DOMAIN w.inventories
    THEN [w EXCEPT !.inventories = (id :> {}) @@ @]
    ELSE w

\* A new Location component names LIMBO; LIMBO's inventory is left as it is.
add_location(w, id) ==
    IF id \notin DOMAIN w.locations
    THEN [w EXCEPT !.locations = (id :> LIMBO) @@ @]
    ELSE w

add_flag_set(w, id) ==
    IF id \notin DOMAIN w.flag_sets
    THEN [w EXCEPT !.flag_sets = (id :> {}) @@ @]
    ELSE w

add_flag(w, id, flag) == set_flag(add_flag_set(w, id), id, flag)

\* set_location, with a new entity allocated for the tag whether or not the tag
\* is known.
set_location_fresh(w, thing, loc_tag) ==
    LET id == Len(w.tags)
        w1 == add_inventory([w EXCEPT !.tags = Append(@, loc_tag)], id)
        w2 == add_location(w1, thing)
    IN  put_in(w2, thing, id)

set_location(w, thing, loc_tag) ==
    LET a == alloc(w, loc_tag)
        w1 == add_inventory(a.world, a.id)
        w2 == add_location(w1, thing)
    IN  put_in(w2, thing, a.id)

\* WorldBuilder::new, with the player allocated before LIMBO.
WorldBuilder_new_player_first ==
    LET p == alloc(NewWorld, "PLAYER")
        w1 == [p.world EXCEPT !.pid = p.id, !.things = (p.id :> "self") @@ @]
        w2 == add_location(add_inventory(w1, p.id), p.id)
        limbo == alloc(w2, "LIMBO")
    IN  add_flag(add_inventory(limbo.world, limbo.id), p.id, Scenery)

WorldBuilder_new ==
    LET limbo == alloc(NewWorld, "LIMBO")
        w1 == add_inventory(limbo.world, limbo.id)
        p == alloc(w1, "PLAYER")
        w2 == [p.world EXCEPT !.pid = p.id, !.things = (p.id :> "self") @@ @]
        w3 == add_location(add_inventory(w2, p.id), p.id)
    IN  add_flag(w3, p.id, Scenery)

WorldBuilder_room(w, tag) ==
    LET a == alloc(w, tag)
        w1 == [a.world EXCEPT !.rooms = (a.id :> EmptyFn) @@ @]
    IN  add_flag_set(add_inventory(w1, a.id), a.id)

WorldBuilder_thing(w, tag, noun) ==
    LET a == alloc(w, tag)
        w1 == [a.world EXCEPT !.things = (a.id :> noun) @@ @]
    IN  add_flag_set(add_location(w1, a.id), a.id)

WorldBuilder_feature(w, tag, noun) ==
    LET w1 == WorldBuilder_thing(w, tag, noun)
        id == lookup_id(w1, tag)
    IN  add_flag(add_flag(w1, id, Immovable), id, Scenery)

ThingBuilder_location(w, id, loc_tag) == set_location(w, id, loc_tag)

PlayerBuilder_location(w, loc_tag) ==
    LET w1 == set_location(w, w.pid, loc_tag)
    IN  add_flag(w1, w.pid, Seen(lookup_id(w1, loc_tag)))

\* WorldBuilder::world: the expectations that must hold of the finished World.
Expected(w, e) ==
    CASE e.is = "Room" -> is_room(w, e.id)
      [] e.is = "Thing" -> is_thing(w, e.id)
      [] e.is = "Player" -> e.id = w.pid
      [] e.is = "Book" -> e.id \in w.books

BuilderTags == {"clearing", "note", "sword"}

CanAlloc(w, tag) == lookup_id(w, tag) # NONE \/ Len(w.tags) < MaxEntities

InitBuild ==
    /\ world = WorldBuilder_new
    /\ expectations = {}
    /\ pc = "building"
    /\ undo_stack = <<>>
    /\ cmd = NoInput
    /\ status = "None"
    /\ pre = world
    /\ out = <<>>
    /\ evals = <<>>
    /\ fireCount = NoFirings
    /\ clean = TRUE
    /\ scenario = FALSE

BuildFrame ==
    UNCHANGED <<undo_stack, cmd, status, pre, out, evals, fireCount, clean, scenario>>

BuildRoom ==
    /\ pc = "building"
    /\ \E tag \in BuilderTags :
          /\ CanAlloc(world, tag)
          /\ world' = WorldBuilder_room(world, tag)
    /\ UNCHANGED <<pc, expectations>>
    /\ BuildFrame

BuildThing ==
    /\ pc = "building"
    /\ \E tag \in BuilderTags :
          /\ CanAlloc(world, tag)
          /\ world' = WorldBuilder_thing(world, tag, tag)
    /\ UNCHANGED <<pc, expectations>>
    /\ BuildFrame

BuildFeature ==
    /\ pc = "building"
    /\ \E tag \in BuilderTags :
          /\ CanAlloc(world, tag)
          /\ world' = WorldBuilder_feature(world, tag, tag)
    /\ UNCHANGED <<pc, expectations>>
    /\ BuildFrame

\* wb.thing(tag, ..).location(loc_tag)
BuildThingLocation ==
    /\ pc = "building"
    /\ \E tag \in BuilderTags, loc_tag \in BuilderTags :
          LET w1 == WorldBuilder_thing(world, tag, tag)
          IN  /\ CanAlloc(world, tag)
              /\ CanAlloc(w1, loc_tag)
              /\ world' = ThingBuilder_location(w1, lookup_id(w1, tag), loc_tag)
    /\ UNCHANGED <<pc, expectations>>
    /\ BuildFrame

\* wb.player().location(loc_tag)
BuildPlayerLocation ==
    /\ pc = "building"
    /\ \E loc_tag \in BuilderTags :
          /\ CanAlloc(world, loc_tag)
          /\ world' = PlayerBuilder_location(world, loc_tag)
          /\ expectations' = expectations \cup
                {[is |-> "Room", id |-> lookup_id(world', loc_tag)]}
    /\ UNCHANGED pc
    /\ BuildFrame

\* wb.world()
BuildWorld ==
    /\ pc = "building"
    /\ pc' = IF \A e \in expectations : Expected(world, e) THEN "built" ELSE "panicked"
    /\ UNCHANGED <<world, expectations>>
    /\ BuildFrame

NextBuild ==
    \/ BuildRoom \/ BuildThing \/ BuildFeature \/ BuildThingLocation
    \/ BuildPlayerLocation \/ BuildWorld

SpecBuild == InitBuild /\ [][NextBuild]_vars

-----------------------------------------------------------------------------
(* The builder, call by call: every kind of call that allocates or refers   *)
(* to a tag, in any order, so that a tag may be referred to before or after  *)
(* the call that defines it.  cmd holds the last call and the number of      *)
(* calls made.                                                               *)

WorldBuilder_rule(w, tag) ==
    LET a == alloc(w, tag)
        w1 == [a.world EXCEPT !.rules = (a.id :> Rule(Turn, FALSE, "always", <<>>)) @@ @]
    IN  add_flag_set(w1, a.id)

\* allow(evt) and on(evt): the World, the rule's identity and the expectation.
build_event_rule(w, kind, evt, tag) ==
    LET t == alloc(w, tag)
        event == IF evt = "get" THEN GetThing(w.pid, t.id) ELSE EnterRoom(w.pid, t.id)
        r == alloc(t.world, kind \o "-" \o evt \o "-" \o tag)
        w1 == [r.world EXCEPT
                 !.rules = (r.id :> Rule(event, kind = "allow", "always", <<>>)) @@ @]
    IN  [world |-> add_flag_set(w1, r.id),
         id |-> r.id,
         expect |-> {[is |-> IF evt = "get" THEN "Thing" ELSE "Room", id |-> t.id]}]

\* RoomBuilder::link, with a new entity allocated for the destination whether or
\* not its tag is known.
RoomBuilder_link_fresh(w, id, dir, room_tag) ==
    LET dest == Len(w.tags)
        w1 == [w EXCEPT !.tags = Append(@, room_tag)]
    IN  [world |-> [w1 EXCEPT !.rooms[id] = (dir :> Room(dest)) @@ @],
         expect |-> {[is |-> "Room", id |-> dest]}]

RoomBuilder_link(w, id, dir, room_tag) ==
    LET dest == alloc(w, room_tag)
    IN  [world |-> [dest.world EXCEPT !.rooms[id] = (dir :> Room(dest.id)) @@ @],
         expect |-> {[is |-> "Room", id |-> dest.id]}]

RuleBuilder_set_flag(w, id, tag, flag) ==
    LET a == alloc(w, tag)
        w1 == add_flag_set(a.world, a.id)
    IN  [w1 EXCEPT !.rules[id].script = Append(@, ActSetFlag(a.id, flag))]

RuleBuilder_forget(w, id, thing) ==
    LET a == alloc(w, thing)
    IN  [world |-> [a.world EXCEPT !.rules[id].script = Append(@, ActForget(a.id))],
         expect |-> {[is |-> "Thing", id |-> a.id]}]

\* One call of the scenario on the builder: the World and the new expectations.
builder_call(w, op, tag, arg) ==
    LET made(w1) == [world |-> w1, expect |-> {}]
        room == WorldBuilder_room(w, tag)
        thing == WorldBuilder_thing(w, tag, tag)
        rule == WorldBuilder_rule(w, tag)
    IN  CASE op = "room" -> made(room)
          [] op = "thing" -> made(thing)
          [] op = "feature" -> made(WorldBuilder_feature(w, tag, tag))
          [] op = "rule" -> made(rule)
          [] op = "allow" -> build_event_rule(w, "allow", "get", tag)
          [] op = "on" -> build_event_rule(w, "on", "enter", tag)
          [] op = "link" -> RoomBuilder_link(room, lookup_id(room, tag), "east", arg)
          [] op = "location" ->
                made(ThingBuilder_location(thing, lookup_id(thing, tag), arg))
          [] op = "player_location" ->
                [world |-> PlayerBuilder_location(w, arg),
                 expect |-> {[is |-> "Room",
                              id |-> lookup_id(PlayerBuilder_location(w, arg), arg)]}]
          [] op = "set_flag" ->
                made(RuleBuilder_set_flag(rule, lookup_id(rule, tag), arg, DIRTY))
          [] op = "forget" -> RuleBuilder_forget(rule, lookup_id(rule, tag), arg)

InitCalls ==
    /\ world = WorldBuilder_new
    /\ expectations = {}
    /\ pc = "building"
    /\ undo_stack = <<>>
    /\ cmd = [op |-> "new", tag |-> "", arg |-> "", n |-> 0]
    /\ status = "None"
    /\ pre = world
    /\ out = <<>>
    /\ evals = <<>>
    /\ fireCount = NoFirings
    /\ clean = TRUE
    /\ scenario = FALSE

BuilderCall(op, tag, arg) ==
    /\ pc = "building"
    /\ cmd.n < MaxCalls
    /\ world' = builder_call(world, op, tag, arg).world
    /\ expectations' = expectations \cup builder_call(world, op, tag, arg).expect
    /\ cmd' = [op |-> op, tag |-> tag, arg |-> arg, n |-> cmd.n + 1]
    /\ pre' = world
    /\ UNCHANGED <<pc, undo_stack, status, out, evals, fireCount, clean, scenario>>

\* The calls with one tag, and those with a second tag that they refer to.
NextCalls ==
    \/ \E op \in {"room", "thing", "feature", "rule", "allow", "on"},
          tag \in {"clearing", "note"} :
           BuilderCall(op, tag, "")
    \/ \E op \in {"link", "location", "player_location", "set_flag", "forget"},
          tag \in {"clearing", "note"}, arg \in {"clearing", "note"} :
           BuilderCall(op, tag, arg)

SpecCalls == InitCalls /\ [][NextCalls]_vars

-----------------------------------------------------------------------------
(* The rules of the builder: rule, allow and on create them; when, unless    *)
(* and once_only configure them, and panic on a rule of the wrong kind.  The *)
(* World is then handed over and the events of its guards occur.  evals      *)
(* holds the guards consulted by the occurrences so far.                     *)

MaxEvents == 2

\* when, unless and once_only, without their assertions.
RuleBuilder_config_unchecked(w, op, id, pred) ==
    [panic |-> FALSE,
     world |-> IF op = "once_only" THEN add_flag(w, id, FireOnce)
               ELSE [w EXCEPT !.rules[id].predicate = pred]]

\* RuleBuilder::when, unless and once_only on the rule id.
RuleBuilder_config(w, op, id, pred) ==
    LET rulec == w.rules[id]
    IN  CASE op = "when" ->
                IF rulec.is_guard THEN [panic |-> TRUE, world |-> w]
                ELSE [panic |-> FALSE, world |-> [w EXCEPT !.rules[id].predicate = pred]]
          [] op = "unless" ->
                IF ~rulec.is_guard THEN [panic |-> TRUE, world |-> w]
                ELSE [panic |-> FALSE, world |-> [w EXCEPT !.rules[id].predicate = pred]]
          [] op = "once_only" ->
                IF rulec.is_guard THEN [panic |-> TRUE, world |-> w]
                ELSE [panic |-> FALSE, world |-> add_flag(w, id, FireOnce)]

RuleBuilderCall(op, id, pred) ==
    /\ pc = "building"
    /\ cmd.n < MaxCalls
    /\ id \in DOMAIN world.rules
    /\ world' = RuleBuilder_config(world, op, id, pred).world
    /\ pc' = IF RuleBuilder_config(world, op, id, pred).panic THEN "panicked"
             ELSE "building"
    /\ cmd' = [op |-> op, tag |-> world.tags[id + 1], arg |-> pred, n |-> cmd.n + 1]
    /\ pre' = world
    /\ UNCHANGED <<undo_stack, status, out, evals, fireCount, clean, scenario,
                   expectations>>

\* The event of a guard occurs in the finished World: rule::allows is asked.
GuardedEvent(id) ==
    /\ pc \in {"building", "running"}
    /\ Len(evals) < MaxEvents
    /\ id \in DOMAIN world.rules
    /\ world.rules[id].is_guard
    /\ world' = allows(Step(world), world.rules[id].event).r.world
    /\ evals' = evals \o allows(Step(world), world.rules[id].event).r.evals
    /\ pc' = "running"
    /\ cmd' = [op |-> "event", tag |-> world.tags[id + 1], arg |-> "", n |-> cmd.n]
    /\ pre' = world
    /\ UNCHANGED <<undo_stack, status, out, fireCount, clean, scenario, expectations>>

NextRules ==
    \/ \E op \in {"rule", "allow", "on"}, tag \in {"clearing", "note"} :
           BuilderCall(op, tag, "")
    \/ \E op \in {"when", "unless", "once_only"}, id \in DOMAIN world.rules,
          pred \in {"always", "player_dead"} :
           RuleBuilderCall(op, id, pred)
    \/ \E id \in DOMAIN world.rules : GuardedEvent(id)

SpecRules == InitCalls /\ [][NextRules]_vars

-----------------------------------------------------------------------------
(* Invariant I1: location/inventory consistency *)

I1(w) ==
    \A e \in DOMAIN w.locations :
        /\ has_inventory(w, w.locations[e])
        /\ e \in w.inventories[w.locations[e]]
        /\ \A c \in DOMAIN w.inventories : e \in w.inventories[c] => c = w.locations[e]

\* C1: after any finite sequence of put_in and take_out calls on the built World,
\* every entity with a Location is in the inventory of its location and in no other.
C1_I1UnderPrimitives == I1(world)

\* C1 witness: both primitives have acted: after a take_out, the sword is in LIMBO
\* and the note has been put into the player's inventory.
C1_Witness ==
    /\ pc = "take_out"
    /\ world.locations[SWORD] = LIMBO
    /\ NOTE \in world.inventories[PLAYER]

-----------------------------------------------------------------------------
(* Observations of the last player_control::system call (pc = "rules"):     *)
(* pre is the World before it, world the World after it, evals the rule     *)
(* predicates it evaluated and out the text it rendered.                    *)

\* A guard denied the event of the last command.
Denied == \E i \in DOMAIN evals : evals[i].kind = "guard" /\ ~evals[i].holds

\* The guard that denied it.
DenyingGuard ==
    evals[CHOOSE i \in DOMAIN evals : evals[i].kind = "guard" /\ ~evals[i].holds].rule

\* A trigger predicate was evaluated by the last command.
TriggerEvaluated == \E i \in DOMAIN evals : evals[i].kind = "trigger"

C3_OnceOnlyFiring ==
    [][clean' =>
          \A id \in OnceRules :
              /\ fireCount'[id] <= 1
              /\ has_flag(world, id, Fired) => has_flag(world', id, Fired)]_vars

\* C3 witness: the once-only trigger on `get sword` had fired before; the sword has
\* been taken again, the trigger's predicate holds again, and its script has still
\* run once.
C3_Witness ==
    /\ pc = "rules"
    /\ clean
    /\ cmd = Command(<<"get", "sword">>)
    /\ has_flag(pre, ON_GET_SWORD, Fired)
    /\ owns(world, PLAYER, SWORD)
    /\ ~owns(pre, PLAYER, SWORD)
    /\ fireCount[ON_GET_SWORD] = 1

Attempted ==
    IF \/ pc # "rules" \/ status # "Normal" \/ cmd.is_debug \/ cmd.parse_error
       \/ \E i \in DOMAIN pre.command_handlers : matches(pre.command_handlers[i], cmd.words)
    THEN Turn
    ELSE LET words == cmd.words
             here == loc(pre, PLAYER)
             link == follow_link(pre, here, words[1])
             dest == CHOOSE d \in link : TRUE
         IN  CASE Len(words) = 2 /\ words[1] = "get" ->
                     GetThing(PLAYER, find_noun(pre, gettable(pre, PLAYER), words[2]))
               [] Len(words) = 2 /\ words[1] = "read" ->
                     ReadThing(PLAYER, find_noun(pre, visible(pre, PLAYER), words[2]))
               [] Len(words) = 1 /\ words[1] \in Dirs /\ link # {} ->
                     IF dest.kind = "Room" THEN EnterRoom(PLAYER, dest.id) ELSE Turn
               [] OTHER -> Turn

\* The operation on the event has been performed.
Performed(event) ==
    CASE event.kind = "GetThing" ->
            /\ owns(world, event.actor, event.target)
            /\ \E i \in DOMAIN out : out[i] = Msg("act", 0, "Taken.")
      [] event.kind = "ReadThing" ->
            \E i \in DOMAIN out : out[i] = Msg("read", event.target, "")
      [] event.kind = "EnterRoom" -> loc(world, event.actor) = event.target
      [] OTHER -> FALSE

\* Every guard bound to the event holds of the World before the command.
AllGuardsAllow(event) ==
    \A id \in DOMAIN pre.rules :
        (pre.rules[id].is_guard /\ pre.rules[id].event = event) =>
            predicate(pre.rules[id].predicate, pre)

\* C6: a guarded operation is performed if and only if every guard bound to its
\* event allows it (an event without guards is always allowed).
C6_GuardConjunction ==
    Attempted # Turn => (Performed(Attempted) <=> AllGuardsAllow(Attempted))

\* C6 witness: `get sword` with clean hands while holding the note: the first of
\* the two guards on the event allows, the second denies, the sword is not taken.
C6_Witness ==
    /\ Attempted = GetThing(PLAYER, SWORD)
    /\ predicate(pre.rules[RULE_SWORD_GET].predicate, pre)
    /\ ~predicate(pre.rules[GUARD_SWORD_NOTE].predicate, pre)
    /\ ~owns(world, PLAYER, SWORD)
    /\ world.locations[SWORD] = TRAIL

\* The gated mutation of the event is visible in what an evaluation saw.
Committed(event, e) ==
    CASE event.kind = "GetThing" -> e.locations[event.target] = event.actor
      [] event.kind = "EnterRoom" ->
            e.locations[event.actor] = event.target /\ Seen(event.target) \in e.flags
      [] OTHER -> TRUE

C8_TurnCounter ==
    pc = "input" =>
        /\ clean => world.clock >= pre.clock
        /\ (clean /\ status = "Normal") => world.clock = pre.clock + 1
        /\ (clean /\ status = "Error") => world.clock = pre.clock

\* C9: the World that the builder returns satisfies I1.
C9_BuiltWorldSatisfiesI1 == pc = "built" => I1(world)

\* C10 (as stated): a debug command never records or replaces the undo point.
C10_DebugLeavesUndoPoint ==
    [][(pc = "input" /\ cmd'.is_debug) => undo_stack' = undo_stack]_vars

\* C10 (amended): a debug command that returns Normal records an undo point like
\* any other accepted command: right after it the undo point is the World as it
\* was before the debug command.
C10_DebugRecordsUndoPoint ==
    (pc = "rules" /\ cmd.is_debug /\ status = "Normal") =>
        (has_undo(undo_stack) /\ undo_world(undo_stack) = pre)

\* C10 witness: `!go trail` after `get note`: the undo point is the World in which
\* the player already holds the note.
C10_Witness ==
    /\ pc = "rules"
    /\ cmd = Debug(<<"go", "trail">>)
    /\ status = "Normal"
    /\ loc(world, PLAYER) = TRAIL
    /\ owns(undo_world(undo_stack), PLAYER, NOTE)
    /\ loc(undo_world(undo_stack), PLAYER) = CLEARING

-----------------------------------------------------------------------------
-----------------------------------------------------------------------------
\* The every-turn once-only rules.
OnceTurnRules == {id \in OnceRules : ScenarioRules[id].event = Turn}

\* C12: `undo` re-arms every once-only rule that fired during the undone turn, and
\* a re-armed every-turn rule fires again in the first rule pass in which its
\* predicate holds (rule-story-1: in the pass right after the undo of the first
\* command, the turn counter being 0 again).
C12_UndoRearmsRules ==
    [][/\ (pc = "input" /\ status = "Normal" /\ status' = "Undo") =>
             \A id \in OnceRules :
                 (has_flag(world, id, Fired) /\ ~has_flag(pre, id, Fired))
                     => armed(world', id)
       /\ (pc = "rules" /\ status = "Undo") =>
             \A id \in OnceTurnRules :
                 (armed(world, id) /\ predicate(world.rules[id].predicate, world)) =>
                     /\ \E i \in DOMAIN evals' : evals'[i].rule = id /\ evals'[i].holds
                     /\ \E i \in DOMAIN out' :
                           out'[i] = Msg("print", 0, world.rules[id].script[1].text)
                     /\ has_flag(world', id, Fired)]_vars

\* C12 witness: the first command has been undone; before the undo rule-story-1
\* had fired, and in the rule pass after the undo it has fired again at turn 0.
C12_Witness ==
    /\ pc = "clock"
    /\ status = "Undo"
    /\ has_flag(pre, RULE_STORY_1, Fired)
    /\ pre.clock = 1
    /\ world.clock = 0
    /\ has_flag(world, RULE_STORY_1, Fired)
    /\ \E i \in DOMAIN out : out[i] = Msg("print", 0, "You don't know where you are.")

-----------------------------------------------------------------------------
\* The postcondition of take_out(thing) called on the World w.
TakenOut(w, thing) ==
    LET after == take_out(w, thing)
    IN  /\ loc(after, thing) = LIMBO
        /\ thing \in contents(after, LIMBO)
        /\ loc(w, thing) # LIMBO => thing \notin contents(after, loc(w, thing))

\* C13: in every World that the primitives reach, take_out(thing) leaves the thing
\* located in LIMBO, in LIMBO's inventory and out of its previous container's
\* inventory, also for a thing that is already in LIMBO.
C13_TakeOutPostcondition ==
    \A thing \in DOMAIN world.locations :
        can_move(world, thing, LIMBO) => TakenOut(world, thing)

\* C13 witness: take_out has acted and the note, taken out of the clearing
\* before, is in LIMBO, where take_out applies to it again.
C13_Witness ==
    /\ pc = "take_out"
    /\ loc(world, NOTE) = LIMBO
    /\ NOTE \in contents(world, LIMBO)
    /\ NOTE \notin contents(world, CLEARING)
    /\ loc(world, SWORD) = TRAIL

-----------------------------------------------------------------------------
\* C14: in every World that the primitives reach, put_in(thing, c) for the c that
\* is already the thing's location gives the World it was called on, and
\* put_in(thing, c) twice gives the same World as once, for every c.
C14_PutInOnCurrentContainer ==
    \A thing \in DOMAIN world.locations, c \in DOMAIN world.inventories :
        can_move(world, thing, c) =>
            /\ loc(world, thing) = c => put_in(world, thing, c) = world
            /\ put_in(put_in(world, thing, c), thing, c) = put_in(world, thing, c)

\* C14 witness: put_in has acted and the World is the World the calls started from
\* (as after put_in(note, clearing) on the built World).
C14_Witness ==
    /\ pc = "put_in"
    /\ world = pre
    /\ loc(world, NOTE) = CLEARING
    /\ contents(world, CLEARING) = {PLAYER, NOTE, TREE}

-----------------------------------------------------------------------------
\* The identities of the World.
Entities(w) == 0 .. (Len(w.tags) - 1)

-----------------------------------------------------------------------------
\* The last command was a `get` that moved the thing from the player's room into
\* the player's inventory (no other accepted command does that).
GotLast(thing) ==
    /\ pc = "input"
    /\ status = "Normal"
    /\ loc(pre, thing) = loc(pre, PLAYER)
    /\ loc(world, PLAYER) = loc(pre, PLAYER)
    /\ ~owns(pre, PLAYER, thing)
    /\ owns(world, PLAYER, thing)
    /\ ~owns(world, loc(pre, PLAYER), thing)

\* C16: `drop t` right after a `get t` that took t from the player's room is
\* accepted and leaves all locations and inventories as they were before the get.
C16_GetDropRoundTrip ==
    [][\A thing \in DOMAIN world.things :
          (GotLast(thing) /\ cmd' = Command(<<"drop", world.things[thing]>>)) =>
              /\ status' = "Normal"
              /\ world'.locations = pre.locations
              /\ world'.inventories = pre.inventories]_vars

\* C16 witness: `get note` as the first command and `drop note` as the second: the
\* note was held before the drop and everything is where the scenario put it.
C16_Witness ==
    /\ pc = "rules"
    /\ clean
    /\ cmd = Command(<<"drop", "note">>)
    /\ status = "Normal"
    /\ pre.clock = 1
    /\ owns(pre, PLAYER, NOTE)
    /\ loc(world, NOTE) = CLEARING
    /\ world.locations = ScenarioLocations
    /\ world.inventories = ScenarioInventories

-----------------------------------------------------------------------------
\* The dead end that the last command ran into: the links of the player's room
\* before the command name a dead end for the direction of the command.
DeadEndTaken ==
    /\ pc = "rules"
    /\ ~cmd.is_debug /\ ~cmd.parse_error
    /\ Len(cmd.words) = 1
    /\ cmd.words[1] \in Dirs
    /\ is_room(pre, loc(pre, PLAYER))
    /\ \E d \in follow_link(pre, loc(pre, PLAYER), cmd.words[1]) : d.kind = "DeadEnd"

\* C17: a `go` into a dead end renders the dead end's message, changes no location
\* and no inventory, and evaluates no guard and no trigger.
C17_DeadEndLink ==
    DeadEndTaken =>
        /\ status = "Normal"
        /\ world.locations = pre.locations
        /\ world.inventories = pre.inventories
        /\ evals = <<>>
        /\ out = <<Msg("info", 0, pre.rooms[loc(pre, PLAYER)][cmd.words[1]].text)>>

\* C17 witness: `west` in the clearing with the note in hand.
C17_Witness ==
    /\ DeadEndTaken
    /\ cmd = Command(<<"west">>)
    /\ out = <<Msg("info", 0, "The woods are too thick.")>>
    /\ loc(world, PLAYER) = CLEARING
    /\ owns(world, PLAYER, NOTE)

-----------------------------------------------------------------------------
\* The last command called enter_room: a `go` along a link to a room.
EnterRoomCalled ==
    /\ pc = "rules"
    /\ ~cmd.is_debug /\ ~cmd.parse_error
    /\ Len(cmd.words) = 1
    /\ cmd.words[1] \in Dirs
    /\ is_room(pre, loc(pre, PLAYER))
    /\ \E d \in follow_link(pre, loc(pre, PLAYER), cmd.words[1]) : d.kind = "Room"

\* The room it was called for.
EnteredRoom == pre.rooms[loc(pre, PLAYER)][cmd.words[1]].id

Rendered(kind, id) == \E i \in DOMAIN out : out[i] = Msg(kind, id, "")

\* The description that enter_room owes the player, and the Seen flag after it.
SeenTracked(room) ==
    /\ Rendered("room", room) <=> ~has_flag(pre, PLAYER, Seen(room))
    /\ Rendered("room_brief", room) <=> has_flag(pre, PLAYER, Seen(room))
    /\ has_flag(world, PLAYER, Seen(room))

\* A step of the game that is neither an undo nor a restart keeps every Seen flag
\* of the player.
SeenKept ==
    (pc = "input" => status' \notin {"Undo", "Restart"}) =>
        \A room \in DOMAIN world.rooms :
            has_flag(world, PLAYER, Seen(room)) => has_flag(world', PLAYER, Seen(room))

\* C18 (as stated): every enter_room call renders the full description exactly if
\* the player had not Seen the room and the brief one otherwise, and leaves the
\* player with Seen(room).
C18_SeenAfterEveryEnterRoom == EnterRoomCalled => SeenTracked(EnteredRoom)

\* C18 (amended): every enter_room call that the guards allow renders the full
\* description exactly if the player had not Seen the room and the brief one
\* otherwise, and leaves the player with Seen(room); a denied call renders no
\* description and leaves the Seen flags alone; no step but undo and restart
\* clears a Seen flag of the player.
C18_SeenTracking ==
    [][/\ (EnterRoomCalled /\ ~Denied)' => SeenTracked(EnteredRoom)'
       /\ (EnterRoomCalled /\ Denied)' =>
             /\ ~Rendered("room", EnteredRoom)' /\ ~Rendered("room_brief", EnteredRoom)'
             /\ \A room \in DOMAIN world.rooms :
                   has_flag(world', PLAYER, Seen(room)) <=> has_flag(world, PLAYER, Seen(room))
       /\ SeenKept]_vars

\* C18 witness: back into the clearing from the trail: the clearing was Seen, its
\* brief description is rendered, and the trail stays Seen.
C18_Witness ==
    /\ EnterRoomCalled
    /\ EnteredRoom = CLEARING
    /\ loc(pre, PLAYER) = TRAIL
    /\ has_flag(pre, PLAYER, Seen(CLEARING))
    /\ out = <<Msg("room_brief", CLEARING, "")>>
    /\ loc(world, PLAYER) = CLEARING
    /\ has_flag(world, PLAYER, Seen(TRAIL))

-----------------------------------------------------------------------------
\* The custom commands whose pattern the words of the last command match.
MatchingHandlers ==
    {i \in DOMAIN pre.command_handlers : matches(pre.command_handlers[i], cmd.words)}

\* The last command was a normal command that some custom command matches.
HandlerMatched ==
    /\ pc = "rules"
    /\ ~cmd.is_debug /\ ~cmd.parse_error
    /\ MatchingHandlers # {}

\* The first of them in registration order.
FirstHandler ==
    pre.command_handlers[CHOOSE i \in MatchingHandlers : \A j \in MatchingHandlers : i <= j]

\* What executing that one handler, and nothing else, makes of the World before
\* the command.
FirstHandlerResult ==
    handler_execute(FirstHandler, Step(pre), [id |-> PLAYER, loc |-> loc(pre, PLAYER)],
                    cmd.words)

\* C19: when custom commands match the words, the first of them in registration
\* order is the only code that runs: the World, the text and the status are what
\* that handler gives, whatever a later handler or a built-in command (get, drop,
\* go, undo, restart) would have done with the same words.
C19_CustomHandlerPrecedence ==
    HandlerMatched =>
        /\ status = FirstHandlerResult.st
        /\ status \in {"Normal", "Error"}
        /\ world = FirstHandlerResult.r.world
        /\ out = IF status = "Error"
                 THEN <<Msg("error", 0, FirstHandlerResult.msg)>>
                 ELSE FirstHandlerResult.r.out
        /\ evals = <<>>
        /\ world.locations = pre.locations
        /\ status = "Normal" => (has_undo(undo_stack) /\ undo_world(undo_stack) = pre)

\* C19 witness: `get unicorn`, which the built-in get would reject for want of a
\* unicorn, is answered by the custom command registered for it.
C19_Witness ==
    /\ HandlerMatched
    /\ cmd = Command(<<"get", "unicorn">>)
    /\ status = "Normal"
    /\ out = <<Msg("print", 0, "Unicorns are not for taking.")>>
    /\ world = pre

-----------------------------------------------------------------------------
\* The flag an action writes, and whether it sets it.
FlagOf(a) == IF a.op \in {"Kill", "Revive"} THEN Dead ELSE a.flag

Writes(a, id, flag) ==
    /\ a.op \in {"SetFlag", "UnsetFlag", "Kill", "Revive"}
    /\ a.id = id
    /\ FlagOf(a) = flag

\* Whether an entity has a flag once a script has been applied in list order: the
\* last action of the script that writes the flag decides, the World before it if
\* there is none.
FlagAfter(script, w, id, flag) ==
    LET writers == {i \in DOMAIN script : Writes(script[i], id, flag)}
        last == CHOOSE i \in writers : \A j \in writers : j <= i
    IN  IF writers = {} THEN has_flag(w, id, flag)
        ELSE script[last].op \in {"SetFlag", "Kill"}

\* The World a script without Forget leaves, and the text it prints.
Effect(script, w) ==
    [w EXCEPT !.flag_sets =
        [id \in DOMAIN @ |->
            {flag \in @[id] \cup {FlagOf(script[i]) : i \in DOMAIN script} :
                FlagAfter(script, w, id, flag)}]]

Printed(script) ==
    LET prints == SelectSeq(script, LAMBDA a : a.op = "Print")
    IN  [i \in DOMAIN prints |-> Msg("print", 0, prints[i].text)]

\* The last command reached the hook of a custom command.
HookCalled ==
    /\ HandlerMatched
    /\ FirstHandler.pattern = "VerbVisible" =>
          find_noun(pre, visible(pre, PLAYER), cmd.words[2]) # NONE

HookResult == hook(FirstHandler.hook, pre, cmd.words)

\* A custom command applies its whole script in list order, or none of it.
HandlerScriptAllOrNothing ==
    HookCalled =>
        IF HookResult.err # ""
        THEN /\ status = "Error"
             /\ world = pre
             /\ out = <<Msg("error", 0, HookResult.err)>>
        ELSE /\ status = "Normal"
             /\ world = Effect(HookResult.script, pre)
             /\ out = Printed(HookResult.script)

\* The scripts of the rules that fired in a rule pass, one after the other, each
\* followed by the marking of its rule as Fired.
RECURSIVE FiredScripts(_, _)
FiredScripts(w, es) ==
    IF es = <<>> THEN <<>>
    ELSE (IF Head(es).holds
          THEN w.rules[Head(es).rule].script \o <<ActSetFlag(Head(es).rule, Fired)>>
          ELSE <<>>) \o FiredScripts(w, Tail(es))

\* A rule pass applies every action of every rule that fires, in list order.
RulePassInOrder ==
    (pc = "rules" /\ pc' = "clock") =>
        LET script == FiredScripts(world, SubSeq(evals', Len(evals) + 1, Len(evals')))
        IN  /\ world' = Effect(script, world)
            /\ out' = out \o Printed(script)

\* C20: a custom command whose hook returns an error applies none of the actions
\* the hook put in the script; a hook that succeeds, and a rule that fires, have
\* every action of the script applied in list order, so that the last set or
\* clear of a flag decides.
C20_ScriptAllOrNothingInOrder ==
    [][HandlerScriptAllOrNothing' /\ RulePassInOrder]_vars

\* C20 witness: `wash note` by the water with a dirty note: the script sets DIRTY
\* on the note and then clears it, and the note ends up clean.
C20_Witness ==
    /\ HookCalled
    /\ cmd = Command(<<"wash", "note">>)
    /\ status = "Normal"
    /\ has_flag(pre, NOTE, DIRTY)
    /\ ~has_flag(world, NOTE, DIRTY)
    /\ out = <<Msg("print", 0, "The dirt smears, then lifts.")>>

\* Witness of the other half: `wash note` away from the water with a dirty note:
\* the hook has filled the script and returns an error; the note stays dirty.
C20_WitnessError ==
    /\ HookCalled
    /\ cmd = Command(<<"wash", "note">>)
    /\ status = "Error"
    /\ HookResult.script # <<>>
    /\ has_flag(world, NOTE, DIRTY)

-----------------------------------------------------------------------------
\* The evaluations of the rule pass that a step makes.
PassEvals == SubSeq(evals', Len(evals) + 1, Len(evals'))

\* Every predicate of a rule pass is evaluated against the World as the rules
\* fired earlier in the pass have left it.
PassSeesEarlierFirings ==
    (pc = "rules" /\ pc' = "clock") =>
        \A i \in DOMAIN PassEvals :
            PassEvals[i].holds =
                predicate(world.rules[PassEvals[i].rule].predicate,
                          Effect(FiredScripts(world, SubSeq(PassEvals, 1, i - 1)), world))

\* The same in a batch of triggers: rule-dirty-note dirties the note, and the
\* later trigger on the same event, which waits for a dirty note, fires with it.
BatchSeesEarlierFirings ==
    \A i \in DOMAIN evals :
        (evals[i].kind = "trigger" /\ evals[i].rule = RULE_DIRTY_NOTE /\ evals[i].holds) =>
            \E j \in DOMAIN evals :
                /\ i < j
                /\ evals[j] = [evals[i] EXCEPT !.rule = ON_GET_NOTE_DIRTY]

\* C21: within one rule pass each predicate is evaluated against the World as
\* modified by the rules fired earlier in the pass, so a rule whose predicate
\* needs a flag that an earlier rule of the pass sets fires in the same pass.
C21_MidBatchVisibility ==
    [][PassSeesEarlierFirings /\ BatchSeesEarlierFirings']_vars

\* C21 witness: the first rule pass: rule-dawn lights the tree, and rule-birdsong,
\* evaluated after it, finds the tree lit and fires in the same pass.
C21_Witness ==
    /\ pc = "clock"
    /\ ~has_flag(pre, TREE, LIT)
    /\ has_flag(world, TREE, LIT)
    /\ \E i, j \in DOMAIN evals :
          /\ i < j
          /\ evals[i].rule = RULE_DAWN /\ evals[i].kind = "turn" /\ evals[i].holds
          /\ evals[j].rule = RULE_BIRDSONG /\ evals[j].kind = "turn" /\ evals[j].holds
    /\ \E k \in DOMAIN out : out[k] = Msg("print", 0, "A bird sings in the tree.")

-----------------------------------------------------------------------------
\* The call op(a, b) is made on an entity that lacks the component the call needs.
MissingComponent(w, op, a, b) ==
    \/ op = "loc" /\ ~has_location(w, a)
    \/ op \in {"contents", "owns", "scenery", "immovable", "removable", "droppable"}
          /\ ~has_inventory(w, a)
    \/ op = "follow_link" /\ ~is_room(w, a)
    \/ op = "put_in" /\ ~has_inventory(w, b)

\* C22: a call of loc on an entity without Location, of contents, owns, scenery,
\* immovable, removable or droppable on an entity without Inventory, of
\* follow_link on a non-room, or of put_in into an entity without Inventory ends
\* the process: the call does not return, nothing is called after it, and every
\* call that does return leaves a World in which each located entity is in the
\* inventory of its location and in no other.
C22_MissingComponentIsFatal ==
    [][/\ pc # "panicked"
       /\ MissingComponent(world, cmd'.op, cmd'.a, cmd'.b) => pc' = "panicked"
       /\ pc' # "panicked" => I1(world')]_vars

\* C22 witness: put_in(sword, note): the note has no Inventory; the process has
\* ended with the sword taken out of the trail and located in the note.
C22_Witness ==
    /\ pc = "panicked"
    /\ cmd = [op |-> "put_in", a |-> SWORD, b |-> NOTE]
    /\ ~has_inventory(world, NOTE)
    /\ world.locations[SWORD] = NOTE
    /\ ~I1(world)

-----------------------------------------------------------------------------
\* No two entities share a tag, and the components are keyed by issued identities.
UniqueTags(w) ==
    /\ \A i, j \in DOMAIN w.tags : w.tags[i] = w.tags[j] => i = j
    /\ (DOMAIN w.things \cup DOMAIN w.rooms \cup DOMAIN w.inventories
          \cup DOMAIN w.locations \cup DOMAIN w.flag_sets \cup DOMAIN w.rules)
         \subseteq 0 .. (Len(w.tags) - 1)

-----------------------------------------------------------------------------
\* The step is a location() or link() call that names a tag registered before it.
SecondAllocation ==
    /\ cmd'.op \in {"location", "link"}
    /\ lookup_id(world, cmd'.arg) # NONE

-----------------------------------------------------------------------------
\* LIMBO is entity 0 and has an Inventory; the player is entity 1 and has an
\* Inventory, a Location and a flag set.
Reserved(w) ==
    /\ has_inventory(w, LIMBO)
    /\ w.pid = PLAYER
    /\ has_inventory(w, w.pid) /\ has_location(w, w.pid) /\ w.pid \in DOMAIN w.flag_sets
    /\ is_thing(w, w.pid)

\* C25: in every World of the builder LIMBO has identity 0 and an Inventory and
\* the player identity 1 with Inventory, Location and flag set, and no builder
\* call changes the tags that hold identities 0 and 1 or the player id.
C25_ReservedIdentities ==
    [][/\ Reserved(world) /\ Reserved(world')
       /\ lookup_id(world, "LIMBO") = LIMBO /\ lookup_id(world, "PLAYER") = PLAYER
       /\ SubSeq(world'.tags, 1, 2) = SubSeq(world.tags, 1, 2)
       /\ world'.pid = world.pid]_vars

\* The same through the commands: the World of the game keeps LIMBO at 0 and the
\* player at 1 through every command, rule pass, undo and restart.
ReservedKeptByCommands ==
    /\ Reserved(world)
    /\ SubSeq(world.tags, 1, 2) = <<"LIMBO", "self">>

\* C25 witness: a call that created the note, then player().location(clearing):
\* the player is still entity 1, now located in the clearing.
C25_Witness ==
    /\ cmd.op = "player_location" /\ cmd.n = 2
    /\ Reserved(world)
    /\ lookup_id(world, "PLAYER") = 1
    /\ world.locations[1] = lookup_id(world, "clearing")
    /\ Len(world.tags) > 3

-----------------------------------------------------------------------------
\* C26: for every owner with an Inventory, scenery and non_scenery partition its
\* contents, and so do immovable and removable; droppable(viewer) is
\* removable(viewer) and gettable(viewer) is removable(location(viewer)).
C26_FilteredViewsPartition ==
    /\ \A owner \in DOMAIN world.inventories :
          /\ scenery(world, owner) \cap non_scenery(world, owner) = {}
          /\ scenery(world, owner) \cup non_scenery(world, owner) = contents(world, owner)
          /\ immovable(world, owner) \cap removable(world, owner) = {}
          /\ immovable(world, owner) \cup removable(world, owner) = contents(world, owner)
          /\ droppable(world, owner) = removable(world, owner)
    /\ \A viewer \in DOMAIN world.locations :
          has_inventory(world, loc(world, viewer)) =>
              gettable(world, viewer) = removable(world, loc(world, viewer))

\* C26 witness: the player holds the note and the sword besides the hands: the
\* hands are the immovable part of the inventory, note and sword the droppable
\* part; in the clearing nothing is left to get but the player, the tree being
\* immovable.
C26_Witness ==
    /\ pc = "rules"
    /\ contents(world, PLAYER) = {HANDS, NOTE, SWORD}
    /\ immovable(world, PLAYER) = {HANDS}
    /\ droppable(world, PLAYER) = {NOTE, SWORD}
    /\ scenery(world, PLAYER) = {HANDS}
    /\ loc(world, PLAYER) = CLEARING
    /\ immovable(world, CLEARING) = {TREE}
    /\ gettable(world, PLAYER) = {PLAYER}

-----------------------------------------------------------------------------
\* The command comes first: its guards are evaluated before its triggers, and no
\* every-turn rule is evaluated in it.
CommandFirst ==
    pc = "input" =>
        /\ pc' \in {"rules", "exited", "panicked"}
        /\ \A i, j \in DOMAIN evals' :
              /\ evals'[i].kind \in {"guard", "trigger"}
              /\ (evals'[i].kind = "trigger" /\ evals'[j].kind = "guard") => j < i

\* The rule pass comes next: it evaluates every-turn rules only, the first of them
\* against the World as the command left it, all of them with the turn counter
\* not yet incremented.
RulePassSecond ==
    pc = "rules" =>
        /\ pc' = "clock"
        /\ world'.clock = world.clock
        /\ \A i \in DOMAIN PassEvals : PassEvals[i].kind = "turn"
        /\ PassEvals # <<>> =>
              /\ PassEvals[1].locations = world.locations
              /\ PassEvals[1].flags = world.flag_sets[PLAYER]
        /\ (\E i \in DOMAIN PassEvals :
                PassEvals[i].rule = RULE_STORY_1 /\ PassEvals[i].holds)
              <=> (world.clock = 0 /\ armed(world, RULE_STORY_1))

\* The increment comes last and changes nothing but the turn counter.
TickLast ==
    pc = "clock" =>
        /\ pc' = "input"
        /\ world' = [world EXCEPT !.clock = @ + 1]

\* rule-story-1 fires in the rule pass of the first turn and, as long as there is
\* no undo and no restart, in no other.
StoryOnFirstTurnOnly ==
    /\ (pc = "rules" /\ clean /\ world.clock = 0) => fireCount'[RULE_STORY_1] = 1
    /\ (pc = "rules" /\ clean /\ world.clock > 0) =>
          /\ fireCount'[RULE_STORY_1] = fireCount[RULE_STORY_1]
          /\ \A i \in DOMAIN PassEvals : PassEvals[i].rule # RULE_STORY_1

\* C27: for each input the loop runs the command (guards, then the mutation, then
\* the triggers), then the every-turn rule pass, then the increment of the turn
\* counter; the rule pass sees the command's effects and the turn counter from
\* before the increment, so that rule-story-1 (clock = 0) fires at the end of the
\* first turn and, without undo or restart, on no later one.
C27_OrderInsideOneTurn ==
    [][CommandFirst /\ RulePassSecond /\ TickLast /\ StoryOnFirstTurnOnly]_vars

\* C27 witness: `get note` as the first command with dirty hands: the two triggers
\* of the command, then rule-story-1, which sees the note in the player's hands
\* and the turn counter still at 0.
C27_Witness ==
    /\ pc = "clock"
    /\ cmd = Command(<<"get", "note">>)
    /\ world.clock = 0
    /\ \E i, j \in DOMAIN evals :
          /\ i < j
          /\ evals[i].kind = "trigger" /\ evals[i].rule = RULE_DIRTY_NOTE /\ evals[i].holds
          /\ evals[j].kind = "turn" /\ evals[j].rule = RULE_STORY_1 /\ evals[j].holds
          /\ evals[j].locations[NOTE] = PLAYER
    /\ fireCount[RULE_STORY_1] = 1

-----------------------------------------------------------------------------
\* The every-turn rules that are not once-only.
RepeatableRules(w) ==
    {id \in DOMAIN w.rules :
        /\ w.rules[id].event = Turn
        /\ ~w.rules[id].is_guard
        /\ ~has_flag(w, id, FireOnce)}

\* The text a step adds to the output.
NewOut == SubSeq(out', Len(out) + 1, Len(out'))

\* A rule pass evaluates every repeatable rule once, whether it is marked Fired or
\* not, and runs the script of each one whose predicate holds.
RepeatableEvaluated ==
    pc = "rules" =>
        \A id \in RepeatableRules(world) :
            /\ Cardinality({i \in DOMAIN PassEvals : PassEvals[i].rule = id}) = 1
            /\ \A i \in DOMAIN PassEvals :
                  (PassEvals[i].rule = id /\ PassEvals[i].holds) =>
                      /\ has_flag(world', id, Fired)
                      /\ \A k \in DOMAIN Printed(world.rules[id].script) :
                            \E n \in DOMAIN NewOut :
                                NewOut[n] = Printed(world.rules[id].script)[k]

\* The two repeatable rules of the scenario: the bird sings in every pass that
\* finds the tree lit, and the fairy godmother revives the player in every pass
\* that finds the player dead.
RepeatableFires ==
    pc = "rules" =>
        /\ has_flag(world, TREE, LIT) =>
              \E n \in DOMAIN NewOut :
                  NewOut[n] = Msg("print", 0, "A bird sings in the tree.")
        /\ has_flag(world, PLAYER, Dead) =>
              /\ \E i \in DOMAIN PassEvals :
                    PassEvals[i].rule = FAIRY_GODMOTHER_RULE /\ PassEvals[i].holds
              /\ ~has_flag(world', PLAYER, Dead)

\* C28: a rule that is not once-only is evaluated on every rule pass, and its
\* actions execute on every pass on which its predicate holds, whether or not an
\* earlier firing has set the Fired flag on it.
C28_RepeatableRulesStayArmed ==
    [][RepeatableEvaluated /\ RepeatableFires]_vars

\* C28 witness: a rule pass has found rule-birdsong already marked Fired, with
\* the tree lit, and the bird has sung again.
C28_Witness ==
    /\ pc = "clock"
    /\ has_flag(pre, RULE_BIRDSONG, Fired)
    /\ \E i \in DOMAIN evals :
          evals[i].kind = "turn" /\ evals[i].rule = RULE_BIRDSONG /\ evals[i].holds
    /\ \E n \in DOMAIN out : out[n] = Msg("print", 0, "A bird sings in the tree.")

-----------------------------------------------------------------------------
\* A step moves the thing and changes nothing else: the Location of the thing, the
\* inventory it leaves and the inventory it enters are the only components that
\* differ, and no rule predicate is evaluated and nothing is rendered.
Moves(thing) ==
    LET from == world.locations[thing]
        to == world'.locations[thing]
    IN  /\ pc' = "take_out" => to = LIMBO
        /\ world'.locations = [world.locations EXCEPT ![thing] = to]
        /\ world'.inventories =
              [c \in DOMAIN world.inventories |->
                  IF c = to THEN world.inventories[c] \cup {thing}
                  ELSE IF c = from THEN world.inventories[c] \ {thing}
                  ELSE world.inventories[c]]
        /\ world' = [world EXCEPT !.locations = world'.locations,
                                  !.inventories = world'.inventories]
        /\ world'.flag_sets = world.flag_sets
        /\ world'.rules = world.rules
        /\ world'.clock = world.clock
        /\ evals' = evals
        /\ out' = out

\* C29: put_in(thing, container) and take_out(thing) change only the Location of
\* the thing, the inventory of its previous container and the inventory of its new
\* container (LIMBO for take_out); every other location and inventory, every flag
\* set, the rules and the turn counter are unchanged, and no guard or trigger is
\* evaluated.
C29_MutatorFrame ==
    [][\E thing \in DOMAIN world.locations : Moves(thing)]_vars

\* C29 witness: put_in has moved the note from the trail to the player, and the
\* rest of the World is as it was built.
C29_Witness ==
    /\ pc = "put_in"
    /\ world.locations = [build(TRUE).locations EXCEPT ![NOTE] = PLAYER]
    /\ build(TRUE).locations[NOTE] # PLAYER
    /\ NOTE \in world.inventories[PLAYER]
    /\ NOTE \notin world.inventories[build(TRUE).locations[NOTE]]
    /\ world.flag_sets = build(TRUE).flag_sets
    /\ evals = <<>>

-----------------------------------------------------------------------------
\* C30: in every state reachable by commands (`get self` included) the Location of
\* the player names a room, no entity is located in itself and no inventory
\* contains its own entity.
C30_PlayerAlwaysInRoom ==
    /\ is_room(world, world.locations[world.pid])
    /\ \A e \in DOMAIN world.locations : world.locations[e] # e
    /\ \A c \in DOMAIN world.inventories : c \notin world.inventories[c]

-----------------------------------------------------------------------------
\* A command that ends with Normal leaves the World it found as the undo point,
\* whether it changed the World or not.
NormalRecordsUndoPoint ==
    (pc = "input" /\ status' = "Normal") =>
        /\ has_undo(undo_stack')
        /\ undo_world(undo_stack') = world

\* The commands that change nothing and the commands a guard denied end with
\* Normal.
UnchangingCommandsAreNormal ==
    pc = "input" =>
        /\ cmd' \in {Command(<<"help">>), Command(<<"look">>), Command(<<"inventory">>)}
              => (status' = "Normal" /\ world' = world)
        /\ (\E i \in DOMAIN evals' : evals'[i].kind = "guard" /\ ~evals'[i].holds)
              => status' = "Normal"

\* C31: every command that ends with Normal records the World before the command
\* as the undo point, the commands that change nothing (help, look, inventory,
\* examine, a go into a dead end) and the get, go and read commands that a guard
\* denied included; `undo` as the next command restores that World.
C31_EveryNormalCommandRecordsUndoPoint ==
    [][/\ NormalRecordsUndoPoint
       /\ UnchangingCommandsAreNormal
       /\ (pc = "input" /\ status = "Normal" /\ status' = "Undo") => world' = pre]_vars

\* C31 witness: `look` with the note in hand: the World is as `look` found it, and
\* the undo point is that World, in which the player holds the note.
C31_Witness ==
    /\ pc = "rules"
    /\ cmd = Command(<<"look">>)
    /\ status = "Normal"
    /\ world = pre
    /\ owns(pre, PLAYER, NOTE)
    /\ has_undo(undo_stack)
    /\ owns(undo_world(undo_stack), PLAYER, NOTE)
    /\ undo_world(undo_stack) = pre

-----------------------------------------------------------------------------
-----------------------------------------------------------------------------
\* C33: in the built scenario, whenever a command leaves the player Dead, the rule
\* pass of the same iteration fires fairy-godmother-rule and clears Dead, so that
\* the player is never Dead when the next command is read.
C33_DeathIsFollowedByRevival ==
    [][/\ pc = "input" => ~has_flag(world, PLAYER, Dead)
       /\ pc' = "input" => ~has_flag(world', PLAYER, Dead)
       /\ (pc = "rules" /\ has_flag(world, PLAYER, Dead)) =>
             /\ \E i \in DOMAIN PassEvals :
                   PassEvals[i].rule = FAIRY_GODMOTHER_RULE /\ PassEvals[i].holds
             /\ \E n \in DOMAIN NewOut :
                   NewOut[n] = Msg("print", 0,
                                   "A fairy godmother hovers over your limp body.")
             /\ ~has_flag(world', PLAYER, Dead)]_vars

\* C33 witness: `get sword` with dirty hands: the sword guard has killed the
\* player, and the rule pass that followed has fired fairy-godmother-rule: the
\* player is alive when the turn counter is about to be incremented.
C33_Witness ==
    /\ pc = "clock"
    /\ cmd = Command(<<"get", "sword">>)
    /\ \E i, j \in DOMAIN evals :
          /\ i < j
          /\ evals[i].kind = "guard" /\ evals[i].rule = RULE_SWORD_GET /\ ~evals[i].holds
          /\ evals[j].kind = "turn" /\ evals[j].rule = FAIRY_GODMOTHER_RULE
          /\ evals[j].holds
          /\ Dead \in evals[j].flags
    /\ ~has_flag(world, PLAYER, Dead)

-----------------------------------------------------------------------------
\* `get sword` reaches get_thing: the player does not hold the sword and the
\* sword lies in the player's location.
SwordWithinReach(w) ==
    /\ find_noun(w, contents(w, w.pid), "sword") = NONE
    /\ find_noun(w, gettable(w, w.pid), "sword") = SWORD

\* `get sword` with dirty hands: rule-sword-get denies it and runs its script.
DirtyHandsDenied ==
    (/\ pc = "input"
     /\ cmd' \in {Command(<<"get", "sword">>)}
     /\ has_flag(world, PLAYER, DIRTY_HANDS)
     /\ SwordWithinReach(world)) =>
        /\ status' = "Normal"
        /\ world'.locations = world.locations
        /\ world'.inventories = world.inventories
        /\ SWORD \in world'.inventories[loc(world, PLAYER)]
        /\ \A i \in DOMAIN evals' : evals'[i].kind # "trigger"
        /\ evals' = <<[rule |-> RULE_SWORD_GET, kind |-> "guard", holds |-> FALSE,
                       locations |-> world.locations,
                       flags |-> world.flag_sets[PLAYER]]>>
        /\ out' = <<Msg("print", 0, "Only the pure may touch this sword.")>>
        /\ has_flag(world', PLAYER, Dead)

\* A command that brings the sword into the player's inventory finds the player
\* with clean hands.
PickedUpWithCleanHands ==
    (/\ pc = "input"
     /\ status' \notin {"Undo", "Restart"}
     /\ ~owns(world, PLAYER, SWORD)
     /\ owns(world', PLAYER, SWORD)) => ~has_flag(world, PLAYER, DIRTY_HANDS)

-----------------------------------------------------------------------------
\* The things flagged Immovable.
ImmovableThings(w) == {e \in DOMAIN w.locations : has_flag(w, e, Immovable)}

\* `get` of an immovable thing of the player's room is refused before any guard
\* is consulted.
GetRefusesImmovable ==
    \A n \in Nouns :
        (/\ pc = "input"
         /\ cmd' = Command(<<"get", n>>)
         /\ find_noun(world, contents(world, PLAYER), n) = NONE
         /\ find_noun(world, immovable(world, loc(world, PLAYER)), n) # NONE) =>
            /\ status' = "Error"
            /\ out' = <<Msg("error", 0, "You can't take that!")>>
            /\ evals' = <<>>
            /\ world' = world

\* `drop` of an immovable thing that the player carries is refused.
DropRefusesImmovable ==
    \A n \in Nouns :
        (/\ pc = "input"
         /\ cmd' = Command(<<"drop", n>>)
         /\ find_noun(world, contents(world, PLAYER), n) \in ImmovableThings(world)) =>
            /\ status' = "Error"
            /\ world' = world

\* No get and no drop changes the location of an immovable thing.
ImmovableStay ==
    (/\ pc = "input"
     /\ Len(cmd'.words) = 2
     /\ cmd'.words[1] \in {"get", "drop"}
     /\ ~cmd'.is_debug) =>
        \A e \in ImmovableThings(world) :
            /\ world'.locations[e] = world.locations[e]
            /\ e \in world'.inventories[world.locations[e]]

\* C35: `get` refuses a thing flagged Immovable in the player's room with 'You
\* can't take that!' and consults no guard, `drop` never moves an Immovable thing
\* out of the player's inventory, and the location of every Immovable thing is
\* the same after every get and drop command.
C35_ImmovableThingsStay ==
    [][GetRefusesImmovable /\ DropRefusesImmovable /\ ImmovableStay]_vars

\* C35 witness: `get tree` in the clearing: refused, no guard consulted, and the
\* tree is where it was; the player carries the immovable hands.
C35_Witness ==
    /\ pc = "rules"
    /\ cmd = Command(<<"get", "tree">>)
    /\ status = "Error"
    /\ out = <<Msg("error", 0, "You can't take that!")>>
    /\ evals = <<>>
    /\ TREE \in ImmovableThings(world)
    /\ world.locations[TREE] = CLEARING
    /\ HANDS \in ImmovableThings(world)
    /\ world.locations[HANDS] = PLAYER

-----------------------------------------------------------------------------
\* C36: the debug `go` moves the player into any entity that is a room with
\* put_in alone: it succeeds whatever an EnterRoom guard of the room would say,
\* evaluates no guard and no trigger, and does not set Seen(room) on the player.
C36_DebugGoBypassesRules ==
    [][\A t \in {"trail", "bridge", "note", "nowhere", "3"} :
          (/\ pc = "input"
           /\ cmd' = Debug(<<"go", t>>)
           /\ parse_id(world, t) # NONE
           /\ is_room(world, parse_id(world, t))) =>
              /\ status' = "Normal"
              /\ world'.locations =
                    [world.locations EXCEPT ![PLAYER] = parse_id(world, t)]
              /\ PLAYER \in world'.inventories[parse_id(world, t)]
              /\ world'.flag_sets = world.flag_sets
              /\ evals' = <<>>
              /\ out' = <<Msg("room", parse_id(world, t), "")>>]_vars

\* C36 witness: `!go bridge` with the note in hand, which the guard of the bridge
\* forbids to the player's own `go`: the player stands on the bridge, no rule has
\* been evaluated, and the bridge is not marked as seen.
C36_Witness ==
    /\ pc = "rules"
    /\ cmd = Debug(<<"go", "bridge">>)
    /\ status = "Normal"
    /\ owns(pre, PLAYER, NOTE)
    /\ ~predicate(pre.rules[GUARD_ENTER_BRIDGE].predicate, pre)
    /\ loc(pre, PLAYER) # BRIDGE
    /\ loc(world, PLAYER) = BRIDGE
    /\ evals = <<>>
    /\ ~has_flag(world, PLAYER, Seen(BRIDGE))

-----------------------------------------------------------------------------
\* The guards of a World.
Guards(w) == {id \in DOMAIN w.rules : w.rules[id].is_guard}

\* The builder rejects once_only and when on a guard and unless on a rule that is
\* no guard.
WrongKindRejected ==
    (pc = "building" /\ cmd'.op \in {"when", "unless", "once_only"}) =>
        LET id == lookup_id(world, cmd'.tag)
        IN  ((id \in Guards(world)) = (cmd'.op # "unless")) =>
                (pc' = "panicked" /\ world' = world)

\* Every occurrence of the event of a guard consults the guard.
GuardConsulted ==
    cmd'.op = "event" =>
        /\ Len(evals') = Len(evals) + 1
        /\ evals'[Len(evals')].kind = "guard"
        /\ evals'[Len(evals')].rule = lookup_id(world, cmd'.tag)
        /\ evals'[Len(evals')].holds =
              predicate(world.rules[lookup_id(world, cmd'.tag)].predicate, world)

\* C37: the builder rejects once_only() and when() on a guard and unless() on a
\* rule that is no guard, so that no guard carries FireOnce, and every guard is
\* consulted on every occurrence of its event, however many times it has denied.
C37_GuardsAreNeverDisarmed ==
    [][/\ WrongKindRejected
       /\ \A id \in Guards(world') : ~has_flag(world', id, FireOnce)
       /\ GuardConsulted]_vars

\* C37 witness: allow(get note) with unless(player is dead): the guard has denied
\* the event twice, and carries no FireOnce.
C37_Witness ==
    /\ pc = "running"
    /\ Len(evals) = 2
    /\ evals[1].rule = evals[2].rule
    /\ evals[1].rule \in Guards(world)
    /\ ~evals[1].holds
    /\ ~evals[2].holds
    /\ ~has_flag(world, evals[1].rule, FireOnce)

-----------------------------------------------------------------------------
\* The first custom command that matches the last command fails: it wants a
\* visible noun and the player sees none of that name, or its hook returns an
\* error.
FirstHandlerFails ==
    /\ HandlerMatched
    /\ \/ /\ FirstHandler.pattern = "VerbVisible"
          /\ find_noun(pre, visible(pre, PLAYER), cmd.words[2]) = NONE
       \/ HookResult.err # ""

\* The error it returns.
FirstHandlerError ==
    IF /\ FirstHandler.pattern = "VerbVisible"
       /\ find_noun(pre, visible(pre, PLAYER), cmd.words[2]) = NONE
    THEN "You don't see any such thing."
    ELSE HookResult.err

\* C38: when the first custom command that matches the words returns an error,
\* the input is rejected with that error: no later custom command and no built-in
\* command is tried with the same words, and no undo point is recorded.
C38_NoFallThroughAfterFailingHandler ==
    [][(pc = "input" /\ FirstHandlerFails') =>
          /\ status' = "Error"
          /\ out' = <<Msg("error", 0, FirstHandlerError')>>
          /\ world' = world
          /\ evals' = <<>>
          /\ undo_stack' = undo_stack]_vars

\* C38 witness: `examine note` with a dirty note in sight, which the built-in
\* examine would describe: the custom command has refused, the input is rejected
\* with its error and the history is as it was.
C38_Witness ==
    /\ FirstHandlerFails
    /\ cmd = Command(<<"examine", "note">>)
    /\ NOTE \in visible(pre, PLAYER)
    /\ status = "Error"
    /\ out = <<Msg("error", 0, "It is too dirty to make out.")>>
    /\ world = pre

\* Witness of the later custom command: `wash hands` away from the water, with
\* the hands in sight: the first custom command refuses, and the error is not the
\* one that the second, which matches too, would give.
C38_WitnessLaterHandler ==
    /\ FirstHandlerFails
    /\ cmd = Command(<<"wash", "hands">>)
    /\ Cardinality(MatchingHandlers) = 2
    /\ status = "Error"
    /\ out = <<Msg("error", 0, "That'd be a neat trick.")>>

====
